---- MODULE Spec2Model ----
(***************************************************************************)
(* The workflow bridge of src/server.py (PipetteWorkflowDataBlock): one    *)
(* register-intercept thread that runs setValues for every external coil   *)
(* write, and the worker threads started by execute_workflow.  Every       *)
(* action is one statement of the source that reads or writes the shared   *)
(* state, so that all interleavings of the intercept thread and the        *)
(* workers are explored.                                                   *)
(*                                                                         *)
(* An optional Python value is a set with at most one element: None is {}  *)
(* and a present value x is {x}.  A workflow is named by its trigger       *)
(* address.  Coil values are booleans.                                     *)
(***************************************************************************)
EXTENDS Integers, Sequences, FiniteSets, TLC

None == {}
Some(x) == {x}

(* src/config.py *)
PIPETTE_PORT == "/dev/tty.usbserial-FT3LK3ZO"
PIPETTE_PORT_2 == "/dev/tty.usbserial-FTXKT5V3"
ASPIRATE_ADDRESS == 2
DISPENSE_ADDRESS == 3
HOME_ADDRESS == 4
ASPIRATE_ADDRESS_2 == 6
DISPENSE_ADDRESS_2 == 7
HOME_ADDRESS_2 == 8

(* The address handle_robot_request and run_command write: setValues(1, ...) *)
ACK_ADDRESS == 1

(* self.workflows: trigger address -> command and serial port *)
workflows ==
    (ASPIRATE_ADDRESS :> [command |-> "aspirate", port |-> PIPETTE_PORT]) @@
    (DISPENSE_ADDRESS :> [command |-> "dispense", port |-> PIPETTE_PORT]) @@
    (HOME_ADDRESS :> [command |-> "home", port |-> PIPETTE_PORT]) @@
    (ASPIRATE_ADDRESS_2 :> [command |-> "aspirate", port |-> PIPETTE_PORT_2]) @@
    (DISPENSE_ADDRESS_2 :> [command |-> "dispense", port |-> PIPETTE_PORT_2]) @@
    (HOME_ADDRESS_2 :> [command |-> "home", port |-> PIPETTE_PORT_2])

(* Largest number of worker threads alive at once that the model tracks. *)
MaxWorkers == 2

WorkerIds == 1..MaxWorkers

(* The addresses the external client writes: two triggers of pipette 1 *)
(* and one trigger of pipette 2.  Address 1 is written by the bridge.   *)
ExternalAddresses == {ASPIRATE_ADDRESS, DISPENSE_ADDRESS, ASPIRATE_ADDRESS_2}

(* The value lists an external write carries. *)
ExternalValues == {<<>>, <<TRUE>>, <<FALSE>>}

(* The addresses of the data block the model tracks. *)
Addresses == {ACK_ADDRESS} \cup ExternalAddresses

(* The ways subprocess.run(cmd_args, timeout=60) ends once started. *)
Outcomes == {"exit0", "exit1", "timeout", "raise"}

VARIABLES
    workflow_state,     \* self.workflow_state
    current_workflow,   \* self.current_workflow: None or Some(trigger address)
    pipette_busy,       \* self.pipette_busy
    last_values,        \* self.last_values: address -> None or Some(value)
    store,              \* the data block's values (super().setValues)
    ipc,                \* intercept thread: statement about to run
    i_addr,             \* intercept thread: address of the write handled
    i_vals,             \* intercept thread: values of the write handled
    i_last,             \* intercept thread: local last_value of setValues
    i_outcome,          \* intercept thread: what the handler of this write did
    workers,            \* worker threads: id -> [pc, wf, last, rc]
    last_accepted,      \* history: workflow of the most recently accepted trigger
    clean               \* history: no worker was alive when that trigger was accepted

(* The state of one PipetteController of src/pipette_controller.py, of the *)
(* serial link it talks over and of one monitor_action call of             *)
(* src/integrate_pipette.py.                                               *)
VARIABLES
    serial_port,        \* self.serial_port: "none", "open" or "closed"
    sequence_number,    \* self.sequence_number
    calls,              \* history: _build_message calls since construction
    request,            \* arguments of _build_message: [msg_type, data]
    frame,              \* the frame _build_message returned last, <<>> before
    escaped,            \* None or Some(result of _escape_data)
    unescaped,          \* None or Some(result of _unescape_data)
    wire,               \* bytes the pipette has sent that have not arrived yet
    in_waiting,         \* bytes arrived at the port and not read yet
    buffer,             \* _wait_for_response: local buffer
    rpc,                \* _wait_for_response: "idle", "loop", "returned", "raised"
    response,           \* _wait_for_response: None or Some(tuple returned)
    log,                \* history: how the call that returned last ended
    mon,                \* monitor_action: position, timeout and clock in half
                        \* seconds, result, and the history of its polls
    action              \* src/integrate_pipette.py execute_action: position,
                        \* arguments and result

server == <<workflow_state, current_workflow, pipette_busy, last_values, store,
            ipc, i_addr, i_vals, i_last, i_outcome, workers, last_accepted, clean>>

controller == <<serial_port, sequence_number, calls, request, frame>>
escaping == <<escaped, unescaped>>
link == <<wire, in_waiting>>
receive == <<buffer, rpc, response>>
pipette == <<controller, escaping, link, receive, log, mon, action>>

vars == <<server, pipette>>

(* src/pipette_controller.py lines 83-88: the controller after __init__,   *)
(* which has built no frame yet                                            *)
NoRequest == [msg_type |-> 0, data |-> <<>>]

ControllerInit ==
    /\ serial_port = "none"
    /\ sequence_number = 1
    /\ calls = 0
    /\ request = NoRequest
    /\ frame = <<>>

(* No _escape_data or _unescape_data call has returned. *)
EscapingInit == escaped = None /\ unescaped = None

(* Nothing is on the serial link. *)
LinkInit == wire = <<>> /\ in_waiting = <<>>

(* No _wait_for_response call has started. *)
ReceiveInit == buffer = <<>> /\ rpc = "idle" /\ response = None

(* No monitor_action call has started. *)
MonitorIdle ==
    [pc |-> "idle", timeout |-> 0, elapsed |-> 0, seen |-> <<>>, kinds |-> <<>>,
     result |-> None]

(* execute_action has not been called. *)
NoAction ==
    [pc |-> "idle", action_type |-> 0, speed |-> 0, volume |-> 0, mix_cycles |-> 0,
     message |-> <<>>, run_confirmation |-> FALSE, monitor |-> FALSE, timeout |-> 0,
     result |-> None, exit_code |-> None]

PipetteInit ==
    /\ ControllerInit
    /\ EscapingInit
    /\ LinkInit
    /\ ReceiveInit
    /\ log = "none"
    /\ mon = MonitorIdle
    /\ action = NoAction

bridge == <<workflow_state, current_workflow, pipette_busy>>
intercept == <<ipc, i_addr, i_vals, i_last, i_outcome>>
history == <<last_accepted, clean>>

DeadWorker == [pc |-> "dead", wf |-> None, last |-> None, rc |-> "none"]

Alive(w) == workers[w].pc # "dead"
NoWorkerAlive == \A w \in WorkerIds : ~Alive(w)

(* The device command process of worker w is running. *)
InFlight(w) == workers[w].pc = "proc"

(* ---------------------------------------------------------------- *)
(* setValues, lines 97-116                                           *)
(* ---------------------------------------------------------------- *)

(* line 99: current_value = values[0] if values else False *)
CurrentValue(values) == IF values # <<>> THEN values[1] ELSE FALSE

(* line 102, mutated: every write counts as a change *)
ValueChangedAlways(last_value, current_value) == TRUE

(* line 102: last_value != current_value *)
ValueChanged(last_value, current_value) == last_value # Some(current_value)

(* lines 108-113: which handler a changed write reaches *)
Handler(address, values) ==
    IF address \in DOMAIN workflows /\ values # <<>>
    THEN IF values[1] = TRUE THEN "request" ELSE "acknowledge"
    ELSE "none"

(* line 116: super().setValues(address, values) of the sparse data block *)
SuperSetValues(values_of, address, values) ==
    [a \in DOMAIN values_of |->
        IF a >= address /\ a < address + Len(values)
        THEN values[a - address + 1]
        ELSE values_of[a]]

(* lines 97-100: an external write arrives; setValues reads last_values *)
ExternalWrite ==
    /\ ipc = "idle"
    /\ \E address \in ExternalAddresses, values \in ExternalValues :
        /\ i_addr' = Some(address)
        /\ i_vals' = values
        /\ i_last' = last_values[address]
    /\ ipc' = "sv_cmp"
    /\ UNCHANGED <<pipette, bridge, last_values, store, i_outcome, workers, history>>

(* lines 102-114: record a changed value and pick the handler *)
SetValuesCompare ==
    /\ ipc = "sv_cmp"
    /\ LET address == CHOOSE a \in i_addr : TRUE
           current_value == CurrentValue(i_vals)
       IN IF ValueChanged(i_last, current_value)
          THEN /\ last_values' = [last_values EXCEPT ![address] = Some(current_value)]
               /\ ipc' = CASE Handler(address, i_vals) = "request" -> "req_check"
                           [] Handler(address, i_vals) = "acknowledge" -> "ack_check"
                           [] OTHER -> "sv_super"
          ELSE /\ UNCHANGED last_values
               /\ ipc' = "sv_super"
    /\ UNCHANGED <<pipette, bridge, store, i_addr, i_vals, i_last, i_outcome, workers, history>>

(* line 116 of the external write, then setValues returns *)
SetValuesStore ==
    /\ ipc = "sv_super"
    /\ store' = SuperSetValues(store, CHOOSE a \in i_addr : TRUE, i_vals)
    /\ ipc' = "idle"
    /\ i_addr' = None
    /\ i_vals' = <<>>
    /\ i_last' = None
    /\ i_outcome' = "none"
    /\ UNCHANGED <<pipette, bridge, last_values, workers, history>>

(* ---------------------------------------------------------------- *)
(* handle_robot_request, lines 118-136                               *)
(* ---------------------------------------------------------------- *)

(* line 120, mutated: a request is taken in every phase *)
RequestAllowedAlways(state) == TRUE

(* line 120: the request is taken only when self.workflow_state is "IDLE" *)
RequestAllowed(state) == state = "IDLE"

(* line 128, mutated: the acknowledgment is written as False *)
AcknowledgeValuesFalse == <<FALSE>>

(* line 128: the values of self.setValues(1, [True]) *)
AcknowledgeValues == <<TRUE>>

(* lines 120-122: the phase check of handle_robot_request *)
HandleRobotRequest ==
    /\ ipc = "req_check"
    /\ IF RequestAllowed(workflow_state)
       THEN /\ ipc' = "req_sv_read"
            /\ i_outcome' = "accepted"
            /\ last_accepted' = i_addr
            /\ clean' = NoWorkerAlive
       ELSE /\ ipc' = "sv_super"
            /\ i_outcome' = "request_ignored"
            /\ UNCHANGED history
    /\ UNCHANGED <<pipette, bridge, last_values, store, i_addr, i_vals, i_last, workers>>

(* line 128 -> line 100: setValues(1, [True]) reads last_values[1] *)
RequestAckRead ==
    /\ ipc = "req_sv_read"
    /\ i_last' = last_values[ACK_ADDRESS]
    /\ ipc' = "req_sv_cmp"
    /\ UNCHANGED <<pipette, bridge, last_values, store, i_addr, i_vals, i_outcome, workers, history>>

(* line 128 -> lines 102-114: address 1 has no workflow, so no handler runs *)
RequestAckCompare ==
    /\ ipc = "req_sv_cmp"
    /\ last_values' =
        IF ValueChanged(i_last, CurrentValue(AcknowledgeValues))
        THEN [last_values EXCEPT ![ACK_ADDRESS] = Some(CurrentValue(AcknowledgeValues))]
        ELSE last_values
    /\ ipc' = "req_sv_super"
    /\ UNCHANGED <<pipette, bridge, store, i_addr, i_vals, i_last, i_outcome, workers, history>>

(* line 128 -> line 116: address 1 is written *)
RequestAckStore ==
    /\ ipc = "req_sv_super"
    /\ store' = SuperSetValues(store, ACK_ADDRESS, AcknowledgeValues)
    /\ ipc' = "req_state"
    /\ UNCHANGED <<pipette, bridge, last_values, i_addr, i_vals, i_last, i_outcome, workers, history>>

(* line 129: self.workflow_state = "ACKNOWLEDGED" *)
RequestSetState ==
    /\ ipc = "req_state"
    /\ workflow_state' = "ACKNOWLEDGED"
    /\ ipc' = "req_cur"
    /\ UNCHANGED <<pipette, current_workflow, pipette_busy, last_values, store,
                   i_addr, i_vals, i_last, i_outcome, workers, history>>

(* line 130: self.current_workflow = workflow *)
RequestSetWorkflow ==
    /\ ipc = "req_cur"
    /\ current_workflow' = i_addr
    /\ ipc' = "req_exec"
    /\ UNCHANGED <<pipette, workflow_state, pipette_busy, last_values, store,
                   i_addr, i_vals, i_last, i_outcome, workers, history>>

(* ---------------------------------------------------------------- *)
(* execute_workflow, lines 151-196                                   *)
(* ---------------------------------------------------------------- *)

(* The worker slot a new thread takes. *)
FreeWorker == CHOOSE w \in WorkerIds : ~Alive(w) /\ \A v \in WorkerIds : v < w => Alive(v)

(* lines 153-155: dispatch is skipped while self.pipette_busy is set *)
ExecuteWorkflowBusy ==
    /\ ipc = "req_exec"
    /\ pipette_busy
    /\ ipc' = "sv_super"
    /\ i_outcome' = "accepted_not_dispatched"
    /\ UNCHANGED <<pipette, bridge, last_values, store, i_addr, i_vals, i_last, workers, history>>

(* lines 195-196, mutated: the handler waits for the thread it started *)
AfterThreadStartJoined == "join"

(* lines 195-196: start() returns at once and execute_workflow returns, *)
(* then handle_robot_request (line 136) and setValues goes on at line   *)
(* 116                                                                  *)
AfterThreadStart == "sv_super"

(* lines 195-196: threading.Thread(target=run_command).start() *)
ExecuteWorkflowStart ==
    /\ ipc = "req_exec"
    /\ ~pipette_busy
    /\ \E w \in WorkerIds : ~Alive(w)
    /\ workers' = [workers EXCEPT ![FreeWorker] =
                      [pc |-> "busy", wf |-> i_addr, last |-> None, rc |-> "none"]]
    /\ ipc' = AfterThreadStart
    /\ i_outcome' = "dispatched"
    /\ UNCHANGED <<pipette, bridge, last_values, store, i_addr, i_vals, i_last, history>>

(* ---------------------------------------------------------------- *)
(* handle_robot_acknowledge_completion, lines 138-149                *)
(* ---------------------------------------------------------------- *)

(* line 140, mutated: the workflow of the written address is not compared *)
AwaitingAcknowledgeAnyWorkflow(state, current, workflow) == state = "COMPLETED"

(* line 140: not (state != "COMPLETED" or self.current_workflow != workflow) *)
AwaitingAcknowledge(state, current, workflow) ==
    state = "COMPLETED" /\ current = workflow

(* lines 140-142: the check of handle_robot_acknowledge_completion *)
HandleRobotAcknowledge ==
    /\ ipc = "ack_check"
    /\ IF AwaitingAcknowledge(workflow_state, current_workflow, i_addr)
       THEN /\ ipc' = "ack_state"
            /\ i_outcome' = "released"
       ELSE /\ ipc' = "sv_super"
            /\ i_outcome' = "acknowledge_ignored"
    /\ UNCHANGED <<pipette, bridge, last_values, store, i_addr, i_vals, i_last, workers, history>>

(* line 147: self.workflow_state = "IDLE" *)
AcknowledgeSetState ==
    /\ ipc = "ack_state"
    /\ workflow_state' = "IDLE"
    /\ ipc' = "ack_cur"
    /\ UNCHANGED <<pipette, current_workflow, pipette_busy, last_values, store,
                   i_addr, i_vals, i_last, i_outcome, workers, history>>

(* line 148: self.current_workflow = None *)
AcknowledgeClearWorkflow ==
    /\ ipc = "ack_cur"
    /\ current_workflow' = None
    /\ ipc' = "sv_super"
    /\ UNCHANGED <<pipette, workflow_state, pipette_busy, last_values, store,
                   i_addr, i_vals, i_last, i_outcome, workers, history>>

(* ---------------------------------------------------------------- *)
(* run_command, lines 157-192, and reset_workflow, lines 198-203     *)
(* ---------------------------------------------------------------- *)

(* line 170, mutated: every exit status counts as success *)
CommandSucceededAnyExit(rc) == rc \in {"exit0", "exit1"}

(* line 170: result.returncode == 0 (no exception was raised) *)
CommandSucceeded(rc) == rc = "exit0"

(* lines 175 and 200, mutated: the completion is written as True *)
CompletionValuesTrue == <<TRUE>>

(* lines 175 and 200: the values of self.setValues(1, [False]) *)
CompletionValues == <<FALSE>>

(* line 159: self.pipette_busy = True *)
RunSetBusy(w) ==
    /\ workers[w].pc = "busy"
    /\ pipette_busy' = TRUE
    /\ workers' = [workers EXCEPT ![w].pc = "running"]
    /\ UNCHANGED <<pipette, workflow_state, current_workflow, last_values, store, intercept, history>>

(* line 160: self.workflow_state = "RUNNING" *)
RunSetRunning(w) ==
    /\ workers[w].pc = "running"
    /\ workflow_state' = "RUNNING"
    /\ workers' = [workers EXCEPT ![w].pc = "launch"]
    /\ UNCHANGED <<pipette, current_workflow, pipette_busy, last_values, store, intercept, history>>

(* line 168: subprocess.run starts the device command, or raises without *)
(* starting it (the except clause of line 188 then resets the workflow)  *)
RunLaunch(w) ==
    /\ workers[w].pc = "launch"
    /\ \/ workers' = [workers EXCEPT ![w].pc = "proc"]
       \/ workers' = [workers EXCEPT ![w].pc = "sv_read", ![w].rc = "raise"]
    /\ UNCHANGED <<pipette, bridge, last_values, store, intercept, history>>

(* lines 168-190: the device command exits, is killed at the 60 s timeout or *)
(* subprocess.run raises; the branch taken is kept in rc                     *)
RunCommandEnds(w) ==
    /\ workers[w].pc = "proc"
    /\ \E rc \in Outcomes :
        workers' = [workers EXCEPT ![w].pc = "sv_read", ![w].rc = rc]
    /\ UNCHANGED <<pipette, bridge, last_values, store, intercept, history>>

(* lines 175 and 200 -> line 100: setValues(1, [False]) reads last_values[1] *)
CompletionRead(w) ==
    /\ workers[w].pc = "sv_read"
    /\ workers' = [workers EXCEPT ![w].pc = "sv_cmp", ![w].last = last_values[ACK_ADDRESS]]
    /\ UNCHANGED <<pipette, bridge, last_values, store, intercept, history>>

(* lines 175 and 200 -> lines 102-114 *)
CompletionCompare(w) ==
    /\ workers[w].pc = "sv_cmp"
    /\ last_values' =
        IF ValueChanged(workers[w].last, CurrentValue(CompletionValues))
        THEN [last_values EXCEPT ![ACK_ADDRESS] = Some(CurrentValue(CompletionValues))]
        ELSE last_values
    /\ workers' = [workers EXCEPT ![w].pc = "sv_super", ![w].last = None]
    /\ UNCHANGED <<pipette, bridge, store, intercept, history>>

(* lines 175 and 200 -> line 116: address 1 is written; the success branch *)
(* goes on to line 176 and reset_workflow to line 201                      *)
CompletionStore(w) ==
    /\ workers[w].pc = "sv_super"
    /\ store' = SuperSetValues(store, ACK_ADDRESS, CompletionValues)
    /\ workers' = [workers EXCEPT ![w].pc =
                      IF CommandSucceeded(workers[w].rc) THEN "completed" ELSE "rst_state"]
    /\ UNCHANGED <<pipette, bridge, last_values, intercept, history>>

(* line 176: self.workflow_state = "COMPLETED" *)
RunSetCompleted(w) ==
    /\ workers[w].pc = "completed"
    /\ workflow_state' = "COMPLETED"
    /\ workers' = [workers EXCEPT ![w].pc = "finally"]
    /\ UNCHANGED <<pipette, current_workflow, pipette_busy, last_values, store, intercept, history>>

(* line 201: self.workflow_state = "IDLE" *)
ResetSetState(w) ==
    /\ workers[w].pc = "rst_state"
    /\ workflow_state' = "IDLE"
    /\ workers' = [workers EXCEPT ![w].pc = "rst_cur"]
    /\ UNCHANGED <<pipette, current_workflow, pipette_busy, last_values, store, intercept, history>>

(* line 202: self.current_workflow = None *)
ResetClearWorkflow(w) ==
    /\ workers[w].pc = "rst_cur"
    /\ current_workflow' = None
    /\ workers' = [workers EXCEPT ![w].pc = "finally"]
    /\ UNCHANGED <<pipette, workflow_state, pipette_busy, last_values, store, intercept, history>>

(* line 192, mutated: the finally clause leaves the flag set *)
BusyAfterCommandKept == TRUE

(* line 192: the value the finally clause assigns to self.pipette_busy *)
BusyAfterCommand == FALSE

(* line 192: finally: self.pipette_busy = False; the thread ends *)
RunFinally(w) ==
    /\ workers[w].pc = "finally"
    /\ pipette_busy' = BusyAfterCommand
    /\ workers' = [workers EXCEPT ![w] = DeadWorker]
    /\ UNCHANGED <<pipette, workflow_state, current_workflow, last_values, store, intercept, history>>

(* ---------------------------------------------------------------- *)
(* The bridge                                                        *)
(* ---------------------------------------------------------------- *)

(* lines 28-33 and 221: the data block after construction *)
BridgeInit ==
    /\ workflow_state = "IDLE"
    /\ current_workflow = None
    /\ pipette_busy = FALSE
    /\ last_values = [a \in Addresses |-> None]
    /\ store = [a \in Addresses |-> FALSE]
    /\ ipc = "idle"
    /\ i_addr = None
    /\ i_vals = <<>>
    /\ i_last = None
    /\ i_outcome = "none"
    /\ workers = [w \in WorkerIds |-> DeadWorker]
    /\ last_accepted = None
    /\ clean = TRUE

(* The bridge after construction; no controller is in use. *)
Init == BridgeInit /\ PipetteInit

InterceptStep ==
    \/ ExternalWrite
    \/ SetValuesCompare
    \/ SetValuesStore
    \/ HandleRobotRequest
    \/ RequestAckRead
    \/ RequestAckCompare
    \/ RequestAckStore
    \/ RequestSetState
    \/ RequestSetWorkflow
    \/ ExecuteWorkflowBusy
    \/ ExecuteWorkflowStart
    \/ HandleRobotAcknowledge
    \/ AcknowledgeSetState
    \/ AcknowledgeClearWorkflow

WorkerStep(w) ==
    \/ RunSetBusy(w)
    \/ RunSetRunning(w)
    \/ RunLaunch(w)
    \/ RunCommandEnds(w)
    \/ CompletionRead(w)
    \/ CompletionCompare(w)
    \/ CompletionStore(w)
    \/ RunSetCompleted(w)
    \/ ResetSetState(w)
    \/ ResetClearWorkflow(w)
    \/ RunFinally(w)

Next == InterceptStep \/ \E w \in WorkerIds : WorkerStep(w)

Spec == Init /\ [][Next]_vars

TypeOK ==
    /\ workflow_state \in {"IDLE", "ACKNOWLEDGED", "RUNNING", "COMPLETED"}
    /\ current_workflow \in {None} \cup {Some(a) : a \in DOMAIN workflows}
    /\ pipette_busy \in BOOLEAN
    /\ \A a \in Addresses : last_values[a] \in {None, Some(TRUE), Some(FALSE)}
    /\ store \in [Addresses -> BOOLEAN]

(* ---------------------------------------------------------------- *)
(* Vocabulary of the properties                                      *)
(* ---------------------------------------------------------------- *)

(* The intercept thread is inside handle_robot_request, lines 124-136. *)
RequestPcs == {"req_sv_read", "req_sv_cmp", "req_sv_super", "req_state", "req_cur", "req_exec"}

(* Worker positions from thread start up to the end of subprocess.run. *)
BeforeCommandEnds == {"busy", "running", "launch", "proc"}

(* The intercept thread takes a step. *)
InterceptMoves == ipc' # ipc

(* Worker w takes a step. *)
WorkerMoves(w) == workers'[w] # workers[w]

(* The serial port of the workflow at an optional trigger address. *)
PortOf(workflow) == {workflows[a].port : a \in workflow}

InFlightWorkers == {w \in WorkerIds : InFlight(w)}

Failed(w) == Alive(w) /\ workers[w].rc \in {"exit1", "timeout", "raise"}

(* ---------------------------------------------------------------- *)
(* C1                                                                *)
(* ---------------------------------------------------------------- *)

(* Positions of the nominal cycle, for a trigger accepted while no worker *)
(* was alive (clean).                                                     *)
C1_CycleInv ==
    /\ ipc \in {"req_state", "req_cur", "req_exec"} => store[ACK_ADDRESS] = TRUE
    /\ (clean /\ ipc = "req_exec") => ~pipette_busy
    /\ \A w \in WorkerIds :
        (clean /\ workers[w].pc \in BeforeCommandEnds) =>
            /\ store[ACK_ADDRESS] = TRUE
            /\ current_workflow = workers[w].wf
            /\ workers[w].wf = last_accepted
    /\ (clean /\ workflow_state = "COMPLETED") =>
            /\ store[ACK_ADDRESS] = FALSE
            /\ current_workflow = last_accepted
            /\ current_workflow # None
    /\ (ipc = "sv_super" /\ i_outcome = "released") =>
            /\ workflow_state = "IDLE"
            /\ current_workflow = None

(* Steps of the nominal cycle: the worker after exit 0, and the check of *)
(* the false write to the trigger of the accepted workflow.              *)
C1_CycleStep ==
    /\ \A w \in WorkerIds :
        (workers[w].rc = "exit0" /\ workers[w].pc = "sv_super" /\ WorkerMoves(w)) =>
            (store'[ACK_ADDRESS] = FALSE /\ workers'[w].pc = "completed")
    /\ \A w \in WorkerIds :
        (workers[w].pc = "completed" /\ WorkerMoves(w)) =>
            (workflow_state' = "COMPLETED" /\ store'[ACK_ADDRESS] = FALSE)
    /\ (/\ ipc = "ack_check"
        /\ workflow_state = "COMPLETED"
        /\ clean
        /\ i_addr = last_accepted
        /\ InterceptMoves) => ipc' = "ack_state"

(* C1: the nominal cycle.  A trigger accepted in phase IDLE while no     *)
(* worker is alive sets address 1 to true and dispatches the device      *)
(* command; when the command exits 0 the worker sets address 1 to false  *)
(* and then phase to COMPLETED, the accepted workflow still being the    *)
(* active one; a false write to its trigger address is then taken and    *)
(* leaves phase IDLE and no active workflow.                             *)
C1_NominalCycle == [](C1_CycleInv) /\ [][C1_CycleStep]_vars

(* A cycle accepted with no worker alive has run to its end: the false *)
(* write to the trigger of the accepted workflow released the bridge.  *)
C1_Witness ==
    /\ ipc = "sv_super"
    /\ i_outcome = "released"
    /\ clean
    /\ i_addr = last_accepted
    /\ store[ACK_ADDRESS] = FALSE

(* ---------------------------------------------------------------- *)
(* C2                                                                *)
(* ---------------------------------------------------------------- *)

(* Phase is ACKNOWLEDGED and address 1 true, the request handler has *)
(* returned and no worker is before or in its device command.        *)
StuckAsserted ==
    /\ workflow_state = "ACKNOWLEDGED"
    /\ store[ACK_ADDRESS] = TRUE
    /\ ipc \notin RequestPcs
    /\ \A w \in WorkerIds : workers[w].pc \in {"dead", "rst_cur", "finally"}

(* C2: the bridge never ends up permanently with address 1 true and no *)
(* device command in flight after a device command failure, also when  *)
(* a trigger write arrives while the failed worker is still resetting: *)
(* no reachable state is StuckAsserted beside a failed worker          *)
(* (StuckAsserted is permanent: C2_StuckIsPermanent).                  *)
C2_NeverStuckAfterFailure == ~(StuckAsserted /\ \E w \in WorkerIds : Failed(w))

(* Once stuck, always stuck: no step leaves StuckAsserted. *)
C2_StuckIsPermanent == [][StuckAsserted => StuckAsserted']_vars

(* ---------------------------------------------------------------- *)
(* C3                                                                *)
(* ---------------------------------------------------------------- *)

(* Address 1 holds true from the start of a worker to the end of its command. *)
C3_TrueWhileInFlight ==
    \A w \in WorkerIds :
        workers[w].pc \in BeforeCommandEnds => store[ACK_ADDRESS] = TRUE

(* The false write of lines 175/200 is made by a worker whose command has *)
(* ended, while no device command is in flight.                           *)
C3_FalseWriteStep ==
    \A w \in WorkerIds :
        (workers[w].pc = "sv_super" /\ WorkerMoves(w)) =>
            /\ workers[w].rc \in Outcomes
            /\ InFlightWorkers = {}
            /\ store[ACK_ADDRESS] = TRUE
            /\ store'[ACK_ADDRESS] = FALSE

(* C3: for every accepted trigger the bridge writes true to address 1   *)
(* before the device command process is started and writes false only   *)
(* after that process has exited, timed out or raised; while a device   *)
(* command is in flight the bridge never writes false to address 1.     *)
C3_AckOrdering == [](C3_TrueWhileInFlight) /\ [][C3_FalseWriteStep]_vars

(* A device command is in flight and address 1 holds true. *)
C3_Witness == \E w \in WorkerIds : InFlight(w) /\ store[ACK_ADDRESS] = TRUE

(* ---------------------------------------------------------------- *)
(* C4                                                                *)
(* ---------------------------------------------------------------- *)

(* The steps of the intercept thread for a true write it does not accept. *)
C4_IgnoredStep ==
    /\ (/\ ipc = "req_check"
        /\ workflow_state \in {"ACKNOWLEDGED", "RUNNING", "COMPLETED"}
        /\ InterceptMoves) =>
            /\ ipc' = "sv_super"
            /\ i_outcome' = "request_ignored"
            /\ UNCHANGED <<bridge, store, last_values, workers>>
    /\ (i_outcome = "request_ignored" /\ InterceptMoves) =>
            /\ ipc' = "idle"
            /\ store'[ACK_ADDRESS] = store[ACK_ADDRESS]
            /\ UNCHANGED <<bridge, last_values, workers>>

(* C4: a true write to a trigger address whose request handler finds    *)
(* phase ACKNOWLEDGED, RUNNING or COMPLETED is ignored: the handler     *)
(* returns at once, and up to the return of setValues the intercept     *)
(* thread changes neither phase, active workflow, busy flag nor         *)
(* address 1, and starts no worker thread.                              *)
C4_BusyRejection == [][C4_IgnoredStep]_vars

(* A true write to a trigger address was ignored while a device *)
(* command is in flight in phase RUNNING.                       *)
C4_Witness ==
    /\ i_outcome = "request_ignored"
    /\ workflow_state = "RUNNING"
    /\ \E w \in WorkerIds : InFlight(w)

(* ---------------------------------------------------------------- *)
(* C5                                                                *)
(* ---------------------------------------------------------------- *)

(* A handler is entered only with a value that differs from the one read *)
(* from last_values, and the value read is the one recorded before.      *)
C5_HandlerOnlyOnChange ==
    /\ ipc \in {"req_check", "ack_check"} => i_last # Some(CurrentValue(i_vals))
    /\ ipc \in {"sv_cmp", "req_check", "ack_check"} =>
         \A a \in i_addr : i_last = last_values[a] \/ last_values[a] = Some(CurrentValue(i_vals))

(* A write equal to the recorded value goes straight to super().setValues. *)
C5_DuplicateStep ==
    (/\ ipc = "sv_cmp"
     /\ \A a \in i_addr : last_values[a] = Some(CurrentValue(i_vals))
     /\ InterceptMoves) =>
        /\ ipc' = "sv_super"
        /\ i_outcome' = "none"
        /\ UNCHANGED <<bridge, last_values, workers>>

(* C5: for every address written, a write whose first value equals the  *)
(* value last observed at that address invokes neither the request      *)
(* handler nor the completion-acknowledgment handler, so of two          *)
(* consecutive identical writes at most the first invokes a handler.    *)
C5_Deduplication == [](C5_HandlerOnlyOnChange) /\ [][C5_DuplicateStep]_vars

(* A repeated true write to a trigger address in phase IDLE went past the *)
(* handlers: without the comparison it would have been accepted.          *)
C5_Witness ==
    /\ ipc = "sv_super"
    /\ i_outcome = "none"
    /\ i_vals = <<TRUE>>
    /\ i_last = Some(TRUE)
    /\ workflow_state = "IDLE"
    /\ \A a \in i_addr : a \in DOMAIN workflows

(* ---------------------------------------------------------------- *)
(* C6                                                                *)
(* ---------------------------------------------------------------- *)

(* C6: under every interleaving of external writes and worker threads, *)
(* no two device command processes of workflows with the same serial   *)
(* port are in flight at the same time.                                *)
C6_OneCommandPerDevice ==
    \A w, v \in WorkerIds :
        (w # v /\ InFlight(w) /\ InFlight(v)) => PortOf(workers[w].wf) # PortOf(workers[v].wf)

(* While a device command is in flight, a true write to the trigger of *)
(* another workflow of the same device has been handled.               *)
C6_Witness ==
    \E w \in WorkerIds :
        /\ InFlight(w)
        /\ ipc = "sv_super"
        /\ i_vals = <<TRUE>>
        /\ i_addr # workers[w].wf
        /\ PortOf(i_addr) = PortOf(workers[w].wf)

(* ---------------------------------------------------------------- *)
(* C7                                                                *)
(* ---------------------------------------------------------------- *)

(* The request handler accepts a trigger of another device in phase RUNNING. *)
C7_OtherDeviceStep ==
    (/\ ipc = "req_check"
     /\ workflow_state = "RUNNING"
     /\ current_workflow # None
     /\ PortOf(i_addr) # PortOf(current_workflow)
     /\ InterceptMoves) => ipc' = "req_sv_read"

(* C7 as claimed: the busy protection is scoped per device; while a     *)
(* workflow for one device is RUNNING, a true write to a trigger        *)
(* address of a workflow on a different device is accepted.             *)
C7_PerDeviceBusy == [][C7_OtherDeviceStep]_vars

(* The request handler ignores a trigger of another device in phase RUNNING. *)
C7_OtherDeviceIgnoredStep ==
    (/\ ipc = "req_check"
     /\ workflow_state = "RUNNING"
     /\ PortOf(i_addr) # PortOf(current_workflow)
     /\ InterceptMoves) =>
        /\ ipc' = "sv_super"
        /\ i_outcome' = "request_ignored"
        /\ UNCHANGED workers

(* C7 amended: the busy protection is global.  While phase is RUNNING, *)
(* a true write to a trigger address of a workflow on a different      *)
(* device is ignored, and at no time is more than one device command   *)
(* in flight, whichever devices are concerned.                         *)
C7_GlobalBusy ==
    /\ [](Cardinality(InFlightWorkers) <= 1)
    /\ [][C7_OtherDeviceIgnoredStep]_vars

(* The command of a pipette 1 workflow is in flight in phase RUNNING and *)
(* a true write to the trigger of a pipette 2 workflow has been ignored. *)
C7_Witness ==
    \E w \in WorkerIds :
        /\ InFlight(w)
        /\ workflow_state = "RUNNING"
        /\ i_outcome = "request_ignored"
        /\ PortOf(workers[w].wf) = {PIPETTE_PORT}
        /\ PortOf(i_addr) = {PIPETTE_PORT_2}

(* ---------------------------------------------------------------- *)
(* C8                                                                *)
(* ---------------------------------------------------------------- *)

(* C8: no partially applied transition takes effect.  Once an accepting *)
(* request handler has returned and until the bridge is IDLE again, the *)
(* active workflow is the workflow whose trigger was accepted last      *)
(* (never empty, never overwritten by another thread's reset).          *)
C8_ActiveWorkflowKept ==
    (workflow_state # "IDLE" /\ ipc \notin RequestPcs) =>
        (current_workflow # None /\ current_workflow = last_accepted)

(* ---------------------------------------------------------------- *)
(* C9                                                                *)
(* ---------------------------------------------------------------- *)

(* The step from COMPLETED to IDLE, and the steps of the intercept thread *)
(* for a false write that fails the check of line 140.                    *)
C9_ReleaseStep ==
    /\ (workflow_state = "COMPLETED" /\ workflow_state' = "IDLE") =>
            /\ ipc = "ack_state"
            /\ i_vals = <<FALSE>>
            /\ i_addr = current_workflow
            /\ i_addr # None
    /\ (/\ ipc = "ack_check"
        /\ (workflow_state # "COMPLETED" \/ current_workflow # i_addr)
        /\ InterceptMoves) =>
            /\ ipc' = "sv_super"
            /\ i_outcome' = "acknowledge_ignored"
            /\ UNCHANGED <<workflow_state, current_workflow>>
    /\ (i_outcome = "acknowledge_ignored" /\ InterceptMoves) =>
            /\ ipc' = "idle"
            /\ UNCHANGED <<workflow_state, current_workflow>>

(* C9: phase goes from COMPLETED to IDLE only in the acknowledgment     *)
(* handler of a false write to the trigger address of the active        *)
(* workflow; a false write to another trigger address, or in another    *)
(* phase, leaves phase and active workflow unchanged.                   *)
C9_AcknowledgeOnlyActive == [][C9_ReleaseStep]_vars

(* In phase COMPLETED a false write to the trigger address of a workflow *)
(* other than the active one has been ignored.                           *)
C9_Witness ==
    /\ i_outcome = "acknowledge_ignored"
    /\ workflow_state = "COMPLETED"
    /\ current_workflow # None
    /\ i_addr # current_workflow

(* ---------------------------------------------------------------- *)
(* C10                                                               *)
(* ---------------------------------------------------------------- *)

(* A failed worker is on the reset path; address 1 is false when it sets *)
(* phase IDLE, and phase is RUNNING until then.                          *)
C10_FailedInv ==
    \A w \in WorkerIds :
        Failed(w) =>
            /\ workers[w].pc \in {"sv_read", "sv_cmp", "sv_super", "rst_state", "rst_cur", "finally"}
            /\ workers[w].pc = "rst_state" => store[ACK_ADDRESS] = FALSE
            /\ workers[w].pc \in {"sv_read", "sv_cmp", "sv_super", "rst_state"} =>
                   workflow_state = "RUNNING"

(* The writes of a failed worker, and the only step that sets COMPLETED. *)
C10_FailedStep ==
    /\ \A w \in WorkerIds :
        (Failed(w) /\ WorkerMoves(w)) =>
            /\ workers[w].pc = "sv_super" =>
                   (store'[ACK_ADDRESS] = FALSE /\ workers'[w].pc = "rst_state")
            /\ workers[w].pc = "rst_state" =>
                   (workflow_state' = "IDLE" /\ store'[ACK_ADDRESS] = FALSE)
            /\ workers[w].pc = "rst_cur" => current_workflow' = None
            /\ workflow_state' # "COMPLETED"
    /\ (workflow_state # "COMPLETED" /\ workflow_state' = "COMPLETED") =>
            \E w \in WorkerIds : workers[w].rc = "exit0" /\ WorkerMoves(w)

(* C10: a worker whose device command exits non-zero, exceeds the 60 s  *)
(* timeout or raises writes false to address 1, then sets phase IDLE,   *)
(* then clears the active workflow, and never sets phase COMPLETED:     *)
(* phase becomes COMPLETED only by a worker whose command exited 0.     *)
C10_FailureResets == [](C10_FailedInv) /\ [][C10_FailedStep]_vars

(* A worker whose command timed out has reset the bridge. *)
C10_Witness ==
    \E w \in WorkerIds :
        /\ workers[w].rc = "timeout"
        /\ workers[w].pc = "finally"
        /\ workflow_state = "IDLE"
        /\ current_workflow = None
        /\ store[ACK_ADDRESS] = FALSE


(* ================================================================ *)
(* The frame codec of src/pipette_controller.py (PipetteController).  *)
(* A byte is a number in 0..255 and a byte string is a sequence.       *)
(* ================================================================ *)

(* lines 71-73: the protocol constants *)
STX == 2
ETX == 3
ESC == 27

(* lines 35, 36 and 38: MsgType *)
GET_ACTION_STATUS == 2
GET_CALIBRATION_FACTOR == 3
SET_ACTION == 5

(* line 135: the sequence number after which the counter starts over *)
SEQUENCE_LIMIT == 65000

(* lines 141 and 219: the number of header bytes *)
HEADER_LENGTH == 8

(* sum(data) *)
RECURSIVE SumBytes(_)
SumBytes(data) ==
    IF data = <<>> THEN 0 ELSE Head(data) + SumBytes(Tail(data))

(* lines 120-121, mutated: the sum itself is stored *)
BuildChecksumPlainSum(data) == SumBytes(data) % 256

(* lines 118-121: _build_checksum *)
BuildChecksum(data) == (256 - (SumBytes(data) % 256)) % 256

(* line 127, mutated: the escape byte itself is not escaped *)
ReservedMarkersOnly == {STX, ETX}

(* line 127: the bytes _escape_data prefixes with ESC *)
Reserved == {STX, ETX, ESC}

(* lines 123-130: _escape_data *)
RECURSIVE EscapeData(_)
EscapeData(data) ==
    IF data = <<>> THEN <<>>
    ELSE (IF Head(data) \in Reserved THEN <<ESC, Head(data)>> ELSE <<Head(data)>>)
         \o EscapeData(Tail(data))

(* lines 244-249: the loop of _unescape_data from index i (counted from 1) *)
RECURSIVE UnescapeFrom(_, _)
UnescapeFrom(data, i) ==
    IF i > Len(data) THEN <<>>
    ELSE IF data[i] = ESC /\ i + 1 <= Len(data)
         THEN <<data[i + 1]>> \o UnescapeFrom(data, i + 2)
         ELSE <<data[i]>> \o UnescapeFrom(data, i + 1)

(* lines 241-250: _unescape_data *)
UnescapeData(data) == UnescapeFrom(data, 1)

(* lines 135-138, mutated: the counter starts over on reaching the limit *)
NextSequenceAtLimit(seq) == IF seq >= SEQUENCE_LIMIT THEN 1 ELSE seq + 1

(* lines 135-138: the sequence number _build_message moves to before it *)
(* builds the header                                                     *)
NextSequence(seq) == IF seq > SEQUENCE_LIMIT THEN 1 ELSE seq + 1

(* lines 144-152: the header, two bytes per 16-bit field, high byte first *)
Header(length, checksum, seq, msg_type) ==
    << length \div 256, length % 256, checksum,
       seq \div 256, seq % 256, 0,
       msg_type \div 256, msg_type % 256 >>

(* line 141, mutated: the length counts the bytes escaping adds *)
MessageLengthEscaped(data) == HEADER_LENGTH + Len(EscapeData(data))

(* line 141: length = 8 + len(data), taken before the escaping of line 163 *)
MessageLength(data) == HEADER_LENGTH + Len(data)

(* lines 141-160: header and payload with the checksum stored in byte 2 *)
Message(seq, msg_type, data) ==
    LET length == MessageLength(data)
        message == Header(length, 0, seq, msg_type) \o data
        checksum == BuildChecksum(message)
    IN [message EXCEPT ![3] = checksum]

(* lines 163-168: the frame _build_message returns for sequence number seq *)
Frame(seq, msg_type, data) ==
    <<STX>> \o EscapeData(Message(seq, msg_type, data)) \o <<ETX>>

(* lines 132-168: one _build_message(msg_type, data) call *)
BuildMessage(msg_type, data) ==
    /\ sequence_number' = NextSequence(sequence_number)
    /\ frame' = Frame(sequence_number', msg_type, data)
    /\ request' = [msg_type |-> msg_type, data |-> data]
    /\ calls' = calls + 1

(* ---------------------------------------------------------------- *)
(* _wait_for_response, lines 193-239                                 *)
(* ---------------------------------------------------------------- *)

(* bytes.find(byte, start): the first position from start on that holds *)
(* byte, counted from 1, and 0 when there is none (Python: -1)          *)
Find(data, byte, start) ==
    LET hits == {i \in start..Len(data) : data[i] = byte}
    IN IF hits = {} THEN 0 ELSE CHOOSE i \in hits : \A j \in hits : i <= j

(* line 209, mutated: the last end marker of the buffer is taken *)
EndMarkerLast(data, stx_pos) ==
    LET hits == {i \in stx_pos..Len(data) : data[i] = ETX}
    IN IF hits = {} THEN 0 ELSE CHOOSE i \in hits : \A j \in hits : i >= j

(* line 209: etx_pos = buffer.find(self.ETX, stx_pos) *)
EndMarker(data, stx_pos) == Find(data, ETX, stx_pos)

(* lines 212-215: the unescaped bytes between the first start marker of *)
(* the buffer and the first end marker after it                         *)
Content(data) ==
    LET stx_pos == Find(data, STX, 1)
        etx_pos == EndMarker(data, stx_pos)
    IN UnescapeData(SubSeq(data, stx_pos + 1, etx_pos - 1))

(* lines 207-211: the buffer holds a start marker and an end marker     *)
(* after it                                                             *)
HasFrame(data) ==
    /\ \E i \in 1..Len(data) : data[i] = STX
    /\ \E i \in 1..Len(data) : data[i] = ETX
    /\ EndMarker(data, Find(data, STX, 1)) > Find(data, STX, 1)

(* The tuple (status_code, response_data, seq_num, msg_type). *)
Tuple(status_code, response_data, seq_num, msg_type) ==
    [status_code |-> status_code, response_data |-> response_data,
     seq_num |-> seq_num, msg_type |-> msg_type]

Returns(value) == [kind |-> "return", value |-> value]
Raises == [kind |-> "raise", value |-> None]
Waits == [kind |-> "wait", value |-> None]

(* lines 219-234, mutated: a short message is answered with a tuple *)
ShortMessageEmptyTuple == Returns(Some(Tuple(0, <<>>, 0, 0)))

(* lines 219 and 234-239: a message shorter than the header leaves the *)
(* loop, and the function returns None                                  *)
ShortMessage == Returns(None)

(* lines 231-232, mutated: a message without status code is refused *)
HeaderOnlyRefused(seq_num, msg_type) == Returns(None)

(* lines 231-232: a message of header length is returned as status *)
(* code 0 with empty data                                          *)
HeaderOnly(seq_num, msg_type) == Returns(Some(Tuple(0, <<>>, seq_num, msg_type)))

(* lines 219-232, mutated: a message whose bytes do not sum to zero *)
(* modulo 256 is refused                                            *)
ParseChecksumChecked(message) ==
    IF Len(message) >= HEADER_LENGTH
    THEN LET seq_num == message[4] * 256 + message[5]
             msg_type == message[7] * 256 + message[8]
         IN IF SumBytes(message) % 256 # 0
            THEN Returns(None)
            ELSE IF Len(message) > HEADER_LENGTH
            THEN IF Len(message) < HEADER_LENGTH + 2
                 THEN Raises
                 ELSE Returns(Some(Tuple(message[9] * 256 + message[10],
                                         SubSeq(message, 11, Len(message)),
                                         seq_num, msg_type)))
            ELSE HeaderOnly(seq_num, msg_type)
    ELSE ShortMessage

(* lines 219-232, mutated: a message whose sequence number is not that *)
(* of the last request is refused                                       *)
ParseSequenceChecked(message) ==
    IF Len(message) >= HEADER_LENGTH
    THEN LET seq_num == message[4] * 256 + message[5]
             msg_type == message[7] * 256 + message[8]
         IN IF seq_num # sequence_number
            THEN Returns(None)
            ELSE IF Len(message) > HEADER_LENGTH
            THEN IF Len(message) < HEADER_LENGTH + 2
                 THEN Raises
                 ELSE Returns(Some(Tuple(message[9] * 256 + message[10],
                                         SubSeq(message, 11, Len(message)),
                                         seq_num, msg_type)))
            ELSE HeaderOnly(seq_num, msg_type)
    ELSE ShortMessage

(* lines 219-232: the header fields and the payload of a message; with  *)
(* exactly one payload byte message[9] raises IndexError                *)
Parse(message) ==
    IF Len(message) >= HEADER_LENGTH
    THEN LET seq_num == message[4] * 256 + message[5]
             msg_type == message[7] * 256 + message[8]
         IN IF Len(message) > HEADER_LENGTH
            THEN IF Len(message) < HEADER_LENGTH + 2
                 THEN Raises
                 ELSE Returns(Some(Tuple(message[9] * 256 + message[10],
                                         SubSeq(message, 11, Len(message)),
                                         seq_num, msg_type)))
            ELSE HeaderOnly(seq_num, msg_type)
    ELSE ShortMessage

(* lines 207-234: what one pass of the loop does with the buffer *)
ScanOutcome(data) ==
    IF HasFrame(data) THEN Parse(Content(data)) ELSE Waits

(* lines 238-239, mutated: the port is closed when the wait times out *)
PortAfterTimeoutClosed(port) == "closed"

(* lines 238-239: the timeout returns None and does not touch the port *)
PortAfterTimeout(port) == port

(* lines 195-199: the call starts; without an open port it returns None *)
WaitBegin ==
    /\ rpc # "loop"
    /\ IF serial_port = "open"
       THEN rpc' = "loop" /\ UNCHANGED log
       ELSE rpc' = "returned" /\ log' = "wait_not_open"
    /\ buffer' = <<>>
    /\ response' = None
    /\ UNCHANGED <<server, controller, escaping, link, mon, action>>

(* lines 201-236: one pass of the loop that finds bytes waiting *)
WaitPoll ==
    /\ rpc = "loop"
    /\ in_waiting # <<>>
    /\ LET outcome == ScanOutcome(buffer \o in_waiting)
       IN /\ buffer' = buffer \o in_waiting
          /\ rpc' = CASE outcome.kind = "return" -> "returned"
                      [] outcome.kind = "raise" -> "raised"
                      [] OTHER -> "loop"
          /\ response' = outcome.value
          /\ log' = CASE outcome.kind = "raise" -> "wait_raise"
                      [] outcome.kind = "wait" -> log
                      [] outcome.value = None -> "wait_short"
                      [] OTHER -> "wait_tuple"
    /\ in_waiting' = <<>>
    /\ UNCHANGED <<server, controller, escaping, wire, mon, action>>

(* lines 201 and 238-239: the timeout has elapsed at the loop test *)
WaitTimeout ==
    /\ rpc = "loop"
    /\ rpc' = "returned"
    /\ response' = None
    /\ serial_port' = PortAfterTimeout(serial_port)
    /\ log' = "wait_timeout"
    /\ UNCHANGED <<server, sequence_number, calls, request, frame,
                   escaping, link, buffer, mon, action>>

(* ---------------------------------------------------------------- *)
(* The codec applied to bounded inputs: a connected controller       *)
(* builds one frame, and the frame is handed whole to its own        *)
(* receive path.                                                     *)
(* ---------------------------------------------------------------- *)

(* Largest number of payload bytes of a built frame. *)
MaxPayload == 3

(* The byte strings over bytes of at most n bytes. *)
BytesUpTo(bytes, n) == UNION {[1..k -> bytes] : k \in 0..n}

(* Payload bytes: the three reserved bytes, zero and the letter A. *)
PayloadBytes == {0, STX, ETX, ESC, 65}

Payloads == BytesUpTo(PayloadBytes, MaxPayload)

MsgTypes == {GET_ACTION_STATUS, GET_CALIBRATION_FACTOR, SET_ACTION}

(* Values of self.sequence_number before the call: the fresh value, the *)
(* values around the wrap and values that put a reserved byte into the  *)
(* header.                                                              *)
SequenceStarts == {1, 2, ESC - 1, SEQUENCE_LIMIT, SEQUENCE_LIMIT + 1}

CodecInit ==
    /\ BridgeInit
    /\ serial_port = "open"
    /\ sequence_number \in SequenceStarts
    /\ calls = sequence_number - 1
    /\ request \in [msg_type : MsgTypes, data : Payloads]
    /\ frame = <<>>
    /\ EscapingInit
    /\ LinkInit
    /\ ReceiveInit
    /\ log = "connect_true"
    /\ mon = MonitorIdle
    /\ action = NoAction

(* _build_message(msg_type, data) on the drawn arguments *)
CodecBuild ==
    /\ frame = <<>>
    /\ BuildMessage(request.msg_type, request.data)
    /\ UNCHANGED <<server, serial_port, escaping, link, receive, log, mon, action>>

(* the frame built arrives whole at the controller's own port *)
CodecLoopback ==
    /\ frame # <<>>
    /\ in_waiting = <<>>
    /\ buffer = <<>>
    /\ rpc \in {"idle", "loop"}
    /\ in_waiting' = frame
    /\ UNCHANGED <<server, controller, escaping, wire, receive, log, mon, action>>

(* _wait_for_response() is called once *)
CodecWait == rpc = "idle" /\ WaitBegin

(* _escape_data(data) on the drawn payload *)
CodecEscape ==
    /\ escaped = None
    /\ escaped' = Some(EscapeData(request.data))
    /\ UNCHANGED <<server, controller, unescaped, link, receive, log, mon, action>>

(* _unescape_data on what _escape_data returned *)
CodecUnescape ==
    /\ unescaped = None
    /\ \E data \in escaped : unescaped' = Some(UnescapeData(data))
    /\ UNCHANGED <<server, controller, escaped, link, receive, log, mon, action>>

CodecNext ==
    \/ CodecBuild
    \/ CodecLoopback
    \/ CodecWait
    \/ WaitPoll
    \/ CodecEscape
    \/ CodecUnescape

SpecCodec == CodecInit /\ [][CodecNext]_vars

(* The receive path has decided on the frame the controller built. *)
LoopbackDone == frame # <<>> /\ buffer = frame /\ rpc \in {"returned", "raised"}

(* The tuple is what the parse makes of payload data: the first two   *)
(* bytes as the status code and the rest as the response data, or zero *)
(* and nothing for an empty payload.                                   *)
Carries(tuple, data) ==
    \/ /\ data = <<>>
       /\ tuple.status_code = 0
       /\ tuple.response_data = <<>>
    \/ /\ Len(data) >= 2
       /\ tuple.status_code = data[1] * 256 + data[2]
       /\ tuple.response_data = SubSeq(data, 3, Len(data))

(* C11: a frame built by _build_message and fed through the receive    *)
(* path comes back as a tuple with the sequence number, the message    *)
(* type and the payload bytes it was built from, for every payload,    *)
(* the reserved bytes 0x02, 0x03 and 0x1B included.                    *)
C11_RoundTrip ==
    LoopbackDone =>
        /\ rpc = "returned"
        /\ \E tuple \in response :
            /\ tuple.seq_num = sequence_number
            /\ tuple.msg_type = request.msg_type
            /\ Carries(tuple, request.data)

(* The header and payload of the frame built, as sent: the bytes between *)
(* the two markers with the escape bytes taken out.                      *)
FrameMessage == UnescapeData(SubSeq(frame, 2, Len(frame) - 1))

(* C12: the checksum byte of a built frame makes the byte sum of header *)
(* and payload zero modulo 256: the sum with the checksum byte counted  *)
(* as zero, plus the stored checksum, is 0 mod 256.  It covers the      *)
(* unescaped bytes and neither the markers nor the escape bytes.        *)
C12_Checksum ==
    frame # <<>> =>
        /\ Len(FrameMessage) = HEADER_LENGTH + Len(request.data)
        /\ FrameMessage[3] \in 0..255
        /\ (SumBytes([FrameMessage EXCEPT ![3] = 0]) + FrameMessage[3]) % 256 = 0

(* A frame was built whose payload needed escaping and whose checksum *)
(* is not zero.                                                       *)
C12_Witness ==
    /\ frame # <<>>
    /\ \E i \in 1..Len(request.data) : request.data[i] \in Reserved
    /\ Len(frame) > Len(FrameMessage) + 2
    /\ FrameMessage[3] # 0

(* ---------------------------------------------------------------- *)
(* The sequence counter: a fresh controller builds frame after frame *)
(* ---------------------------------------------------------------- *)

(* Largest number of _build_message calls followed: past the wrap. *)
MaxCalls == 65002

(* _build_message(MsgType.GET_ACTION_STATUS) *)
SeqBuild ==
    /\ calls < MaxCalls
    /\ BuildMessage(GET_ACTION_STATUS, <<>>)
    /\ UNCHANGED <<server, serial_port, escaping, link, receive, log, mon, action>>

SeqNext == SeqBuild

SpecSeq == Init /\ [][SeqNext]_vars

(* lines 147-148: the sequence number the frame built last carries *)
FrameSequence == FrameMessage[4] * 256 + FrameMessage[5]

(* C13: after SEQUENCE_LIMIT (65000) consecutive _build_message calls  *)
(* on a fresh controller the next call produces sequence number 1, and *)
(* no call ever produces sequence number 0.                            *)
C13_WrapToOne ==
    /\ calls = SEQUENCE_LIMIT + 1 => FrameSequence = 1
    /\ calls >= 1 => FrameSequence # 0

(* The call after the first 65000 calls has been made. *)
C13_Witness == calls = SEQUENCE_LIMIT + 1 /\ frame # <<>> /\ sequence_number = 1

C14_FollowsStep ==
    (calls >= 1 /\ calls' = calls + 1 /\ FrameSequence' # 1)
        => FrameSequence' = FrameSequence + 1

(* C14: the first frame a fresh controller builds carries sequence     *)
(* number 1, and every following frame carries the previous number     *)
(* plus one until the counter wraps to 1.                              *)
C14_StartsAtOne ==
    /\ [](calls = 1 => FrameSequence = 1)
    /\ [][C14_FollowsStep]_vars

(* The drawn byte string consists of reserved bytes only. *)
ReservedOnly == \A i \in 1..Len(request.data) : request.data[i] \in {STX, ETX, ESC}

(* C15: for a byte string of reserved bytes only (0x02, 0x03, 0x1B),   *)
(* _unescape_data(_escape_data(x)) is x, in length and in content.     *)
C15_EscapeRoundTrip ==
    (ReservedOnly /\ unescaped # None) =>
        \A x \in unescaped : Len(x) = Len(request.data) /\ x = request.data

(* A string of two or more reserved bytes, an escape byte among them,  *)
(* has been escaped to a different string and unescaped again.         *)
C15_Witness ==
    /\ ReservedOnly
    /\ Len(request.data) >= 2
    /\ \E i \in 1..Len(request.data) : request.data[i] = ESC
    /\ escaped # Some(request.data)
    /\ unescaped = Some(request.data)

(* ---------------------------------------------------------------- *)
(* A session: connect, requests and waits for responses, while the   *)
(* bytes the pipette sends arrive at the port in chunks.             *)
(* ---------------------------------------------------------------- *)

(* Largest number of zero bytes a received content starts with. *)
MaxPad == 10

(* Largest number of bytes that follow them. *)
MaxTail == 2

(* Largest number of requests sent in one session. *)
MaxSends == 2

(* The bytes that follow the zero bytes: an ordinary byte, the end *)
(* marker and the escape byte.                                     *)
RxBytes == {1, ETX, ESC}

Zeros(n) == [i \in 1..n |-> 0]

(* What the pipette sends in a session: a start marker, a content of *)
(* any length around the header length, and an end marker.           *)
RxWires ==
    {<<STX>> \o Zeros(n) \o tail \o <<ETX>> :
        n \in 0..MaxPad, tail \in BytesUpTo(RxBytes, MaxTail)}

SessionInit ==
    /\ BridgeInit
    /\ ControllerInit
    /\ EscapingInit
    /\ wire \in RxWires
    /\ in_waiting = <<>>
    /\ ReceiveInit
    /\ log = "none"
    /\ mon = MonitorIdle
    /\ action = NoAction

(* lines 90-110: connect() opens the port or catches SerialException *)
Connect ==
    /\ serial_port = "none"
    /\ \E opened \in BOOLEAN :
        IF opened
        THEN serial_port' = "open" /\ log' = "connect_true"
        ELSE UNCHANGED serial_port /\ log' = "connect_false"
    /\ UNCHANGED <<server, sequence_number, calls, request, frame,
                   escaping, link, receive, mon, action>>

(* lines 114-115, mutated: the port is left as it is *)
PortAfterDisconnectKept(port) == port

(* lines 114-115: an open port is closed; without a port object or with *)
(* a closed one nothing is done                                         *)
PortAfterDisconnect(port) == IF port = "open" THEN "closed" ELSE port

(* lines 112-116: disconnect() *)
Disconnect ==
    /\ rpc # "loop"
    /\ serial_port' = PortAfterDisconnect(serial_port)
    /\ log' = "disconnect"
    /\ UNCHANGED <<server, sequence_number, calls, request, frame,
                   escaping, link, receive, mon, action>>

(* line 172: _send_message goes on only with an open port *)
SendAllowed(port) == port = "open"

(* lines 170-191: _send_message(msg_type, data); write may raise       *)
(* SerialException, which makes it return False                        *)
SendMessage(msg_type, data) ==
    /\ rpc # "loop"
    /\ IF SendAllowed(serial_port)
       THEN /\ BuildMessage(msg_type, data)
            /\ \E outcome \in {"sent", "write_failed"} :
                /\ in_waiting' = <<>>
                /\ log' = IF outcome = "sent" THEN "send_true" ELSE "send_failed"
       ELSE /\ log' = "send_not_open"
            /\ UNCHANGED <<sequence_number, calls, request, frame, in_waiting>>
    /\ UNCHANGED <<server, serial_port, escaping, wire, receive, mon>>

SessionSend ==
    /\ calls < MaxSends
    /\ SendMessage(GET_ACTION_STATUS, <<>>)
    /\ UNCHANGED action

(* the next bytes of the pipette reach the port *)
Arrive ==
    /\ serial_port = "open"
    /\ \E k \in 1..Len(wire) :
        /\ in_waiting' = in_waiting \o SubSeq(wire, 1, k)
        /\ wire' = SubSeq(wire, k + 1, Len(wire))
    /\ UNCHANGED <<server, controller, escaping, receive, log, mon, action>>

SessionNext ==
    \/ Connect
    \/ SessionSend
    \/ WaitBegin
    \/ WaitPoll
    \/ WaitTimeout
    \/ Arrive
    \/ Disconnect

SpecSession == SessionInit /\ [][SessionNext]_vars

(* The bytes between the markers unescape to fewer bytes than a header. *)
ShortFrame(data) == HasFrame(data) /\ Len(Content(data)) < HEADER_LENGTH

(* C16: a received frame whose content between the markers is shorter  *)
(* than 8 bytes after unescaping is a decode failure: the call returns *)
(* no response tuple (it returns None and does not raise).             *)
C16_ShortFrameFails ==
    (rpc # "loop" /\ ShortFrame(buffer)) => (rpc = "returned" /\ response = None)

(* A frame of eight bytes between the markers that unescape to seven *)
(* has been received and refused.                                    *)
C16_Witness ==
    /\ rpc = "returned"
    /\ HasFrame(buffer)
    /\ Find(buffer, ETX, 1) - Find(buffer, STX, 1) = HEADER_LENGTH + 1
    /\ Len(Content(buffer)) = HEADER_LENGTH - 1
    /\ response = None

(* _wait_for_response returns without a complete frame in its buffer. *)
C20_TimeoutStep ==
    (rpc = "loop" /\ rpc' # "loop" /\ ~HasFrame(buffer'))
        => (rpc' = "returned" /\ response' = None /\ serial_port' = "open")

(* The call after a timed-out wait is a _send_message. *)
C20_NextSendStep ==
    (log = "wait_timeout" /\ log' \in {"send_true", "send_failed", "send_not_open"})
        => /\ log' # "send_not_open"
           /\ calls' = calls + 1
           /\ frame' = Frame(sequence_number', GET_ACTION_STATUS, <<>>)

(* C20: when no complete frame arrives within the timeout,             *)
(* _wait_for_response reports failure (None) to the caller and leaves  *)
(* the serial port open, so that a following request passes the port   *)
(* check of _send_message and is written on the same session.          *)
C20_TimeoutKeepsSession ==
    /\ [](log = "wait_timeout" => (SendAllowed(serial_port) /\ response = None))
    /\ [][C20_TimeoutStep]_vars
    /\ [][C20_NextSendStep]_vars

(* A second request has been written after a wait that had read part *)
(* of a frame and timed out.                                         *)
C20_Witness ==
    /\ log = "send_true"
    /\ calls = 2
    /\ rpc = "returned"
    /\ response = None
    /\ buffer # <<>>
    /\ ~HasFrame(buffer)
    /\ serial_port = "open"

(* ================================================================ *)
(* monitor_action of src/integrate_pipette.py, lines 93-151.         *)
(* Time is counted in half seconds.  One action is one pass of the   *)
(* polling loop: the status request, the wait for the response and   *)
(* the decision.  The pipette answers with a frame of the protocol   *)
(* that carries the sequence number of the request, with a damaged   *)
(* frame, or not at all.                                             *)
(* ================================================================ *)

(* src/pipette_controller.py lines 50 and 54: StatusCode *)
COMMAND_ACCEPTED == 0
COMMAND_NOT_ACCEPTED == 4

(* src/pipette_controller.py lines 59-64: ActionStatus *)
READY == 0
WAIT_FOR_BLOWIN == 1
WAIT_FOR_RUN_KEY == 2
BUSY == 3
PIPETTE_NOT_HOMED == 4
USER_ABORT == 5

(* An action status that is no member of ActionStatus (lines 111-114). *)
UNKNOWN_STATUS == 6

(* line 98: check_interval, 0.5 s *)
CHECK_INTERVAL == 1

(* line 103: _wait_for_response(timeout=1.0) *)
RESPONSE_TIMEOUT == 2

(* Largest overall timeout of a monitor_action call, in half seconds. *)
MaxTimeout == 4

(* The two bytes of a 16-bit value, high byte first. *)
Word(value) == <<value \div 256, value % 256>>

(* The frame of a response to GET_ACTION_STATUS: status code, then *)
(* action status and hardware error code as response data.         *)
StatusReply(seq, status_code, action_status, hardware_error) ==
    Frame(seq, GET_ACTION_STATUS,
          Word(status_code) \o Word(action_status) \o Word(hardware_error))

(* What reaches the port during one poll: nothing, a status response, *)
(* a refusal, a response with two data bytes only, or a frame whose   *)
(* content is one byte longer than a header.                          *)
Replies(seq) ==
    {<<>>}
    \cup {StatusReply(seq, COMMAND_ACCEPTED, action_status, hardware_error) :
            action_status \in READY..UNKNOWN_STATUS, hardware_error \in {0, 1}}
    \cup {StatusReply(seq, COMMAND_NOT_ACCEPTED, READY, 0)}
    \cup {Frame(seq, GET_ACTION_STATUS, Word(COMMAND_ACCEPTED) \o Word(READY))}
    \cup {<<STX>> \o Zeros(HEADER_LENGTH + 1) \o <<ETX>>}

(* lines 104-141: how a poll whose request was sent went *)
PollKind(returned) ==
    IF returned = None THEN "no_response"
    ELSE LET tuple == CHOOSE t \in returned : TRUE
         IN IF tuple.status_code # COMMAND_ACCEPTED THEN "not_accepted"
            ELSE IF Len(tuple.response_data) < 4 THEN "short_data"
            ELSE "status"

(* line 108: the action status of a poll of kind "status" *)
ActionStatusOf(returned) ==
    LET tuple == CHOOSE t \in returned : TRUE
    IN tuple.response_data[1] * 256 + tuple.response_data[2]

(* lines 123-125 and 136-138, mutated: only READY is a success *)
SuccessStatusesReadyOnly == {READY}

(* lines 123-125 and 136-138: the statuses that make it return True *)
SuccessStatuses == {READY, WAIT_FOR_BLOWIN}

(* lines 126-128: the status that makes it return False *)
FailureStatuses == {USER_ABORT}

(* lines 139-146, mutated: a failed status query ends the monitoring *)
FailedPollEnds == "failure"

(* lines 139-146: after a failed status query the loop goes on *)
FailedPoll == "continue"

(* lines 150-151, mutated: the timeout is reported as success *)
TimeoutResultTrue == TRUE

(* lines 150-151: the value returned when the timeout is reached *)
TimeoutResult == FALSE

(* lines 120-138, mutated: a hardware error code other than zero makes *)
(* the poll a failure                                                  *)
DecisionHardwareChecked(kind, returned) ==
    IF kind # "status" THEN FailedPoll
    ELSE IF (CHOOSE t \in returned : TRUE).response_data[3] # 0
            \/ (CHOOSE t \in returned : TRUE).response_data[4] # 0 THEN "failure"
    ELSE IF ActionStatusOf(returned) \in SuccessStatuses THEN "success"
    ELSE IF ActionStatusOf(returned) \in FailureStatuses THEN "failure"
    ELSE "continue"

(* lines 102-146: what one poll decides *)
Decision(kind, returned) ==
    IF kind # "status" THEN FailedPoll
    ELSE IF ActionStatusOf(returned) \in SuccessStatuses THEN "success"
    ELSE IF ActionStatusOf(returned) \in FailureStatuses THEN "failure"
    ELSE "continue"

(* A controller on which monitor_action is called: connected or never *)
(* connected, after its second request.                               *)
MonitorInit ==
    /\ BridgeInit
    /\ serial_port \in {"open", "none"}
    /\ calls = 2
    /\ sequence_number = calls + 1
    /\ request = [msg_type |-> GET_ACTION_STATUS, data |-> <<>>]
    /\ frame = Frame(sequence_number, GET_ACTION_STATUS, <<>>)
    /\ EscapingInit
    /\ LinkInit
    /\ ReceiveInit
    /\ log = IF serial_port = "open" THEN "connect_true" ELSE "connect_false"
    /\ mon = MonitorIdle
    /\ action = NoAction

(* lines 93-98: monitor_action(controller, timeout) is called *)
MonitorStart ==
    /\ mon.pc = "idle"
    /\ \E timeout \in 0..MaxTimeout :
        mon' = [mon EXCEPT !.pc = "loop", !.timeout = timeout]
    /\ UNCHANGED <<server, controller, escaping, link, receive, log, action>>

(* lines 104-148: the monitor after a poll of the given kind that took *)
(* waited half seconds before its decision                             *)
Polled(kind, returned, waited) ==
    LET decision == IF kind = "raised" THEN "raise" ELSE Decision(kind, returned)
    IN [mon EXCEPT
          !.seen = Append(@, IF kind = "status" THEN Some(ActionStatusOf(returned))
                                                ELSE None),
          !.kinds = Append(@, kind),
          !.pc = CASE decision \in {"success", "failure"} -> "done"
                   [] decision = "raise" -> "raised"
                   [] OTHER -> "loop",
          !.result = CASE decision = "success" -> Some(TRUE)
                       [] decision = "failure" -> Some(FALSE)
                       [] OTHER -> None,
          !.elapsed = @ + waited + (IF decision = "continue" THEN CHECK_INTERVAL ELSE 0)]

(* lines 100-148: one pass of the loop within the timeout *)
MonitorPoll ==
    /\ mon.pc = "loop"
    /\ mon.elapsed < mon.timeout
    /\ IF ~SendAllowed(serial_port)
       THEN /\ log' = "send_not_open"
            /\ mon' = Polled("send_failed", None, 0)
            /\ UNCHANGED <<sequence_number, calls, request, frame, link, receive>>
       ELSE /\ BuildMessage(GET_ACTION_STATUS, <<>>)
            /\ in_waiting' = <<>>
            /\ \E written \in BOOLEAN :
                IF ~written
                THEN /\ log' = "send_failed"
                     /\ mon' = Polled("send_failed", None, 0)
                     /\ UNCHANGED receive
                ELSE \E reply \in Replies(sequence_number') :
                        LET scanned == ScanOutcome(reply)
                            timed_out == scanned.kind = "wait"
                            kind == IF scanned.kind = "raise" THEN "raised"
                                    ELSE PollKind(scanned.value)
                        IN /\ buffer' = reply
                           /\ rpc' = IF scanned.kind = "raise" THEN "raised" ELSE "returned"
                           /\ response' = scanned.value
                           /\ log' = CASE scanned.kind = "raise" -> "wait_raise"
                                       [] timed_out -> "wait_timeout"
                                       [] scanned.value = None -> "wait_short"
                                       [] OTHER -> "wait_tuple"
                           /\ mon' = Polled(kind, scanned.value,
                                            IF timed_out THEN RESPONSE_TIMEOUT ELSE 0)
            /\ UNCHANGED wire
    /\ UNCHANGED <<server, serial_port, escaping, action>>

(* lines 100 and 150-151: the timeout has been reached at the loop test *)
MonitorTimeout ==
    /\ mon.pc = "loop"
    /\ mon.elapsed >= mon.timeout
    /\ mon' = [mon EXCEPT !.pc = "done", !.result = Some(TimeoutResult)]
    /\ UNCHANGED <<server, controller, escaping, link, receive, log, action>>

MonitorNext ==
    \/ MonitorStart
    \/ MonitorPoll
    \/ MonitorTimeout

SpecMonitor == MonitorInit /\ [][MonitorNext]_vars

(* The thread that runs monitor_action keeps running: every pass of the *)
(* loop, with its bounded waits, comes to an end.                       *)
SpecMonitorFair == SpecMonitor /\ WF_vars(MonitorNext)


(* The number of polls made so far. *)
Polls == Len(mon.seen)

(* Poll i returned one of the three terminal action statuses. *)
TerminalAt(i) == mon.seen[i] \cap {READY, WAIT_FOR_BLOWIN, USER_ABORT} # {}

(* The kinds of a failed status query. *)
FailedKinds == {"send_failed", "no_response", "not_accepted", "short_data"}

(* C17: the result of monitor_action is decided by the first terminal  *)
(* action status among the successful polls: READY and WAIT_FOR_BLOWIN *)
(* give success, USER_ABORT gives failure, and polling stops at that   *)
(* poll.  Any other polled status (WAIT_FOR_RUN_KEY, BUSY,             *)
(* PIPETTE_NOT_HOMED) never stops the polling: after it the loop goes  *)
(* on, and only the timeout ends it.                                   *)
C17_FirstTerminalDecides ==
    /\ \A i \in 1..(Polls - 1) : ~TerminalAt(i)
    /\ (Polls >= 1 /\ TerminalAt(Polls)) =>
          /\ mon.pc = "done"
          /\ mon.result = Some(mon.seen[Polls] \subseteq {READY, WAIT_FOR_BLOWIN})
    /\ (Polls >= 1 /\ mon.seen[Polls] # None /\ ~TerminalAt(Polls)) =>
          \/ mon.pc = "loop"
          \/ mon.pc = "done" /\ mon.result = Some(FALSE) /\ mon.elapsed >= mon.timeout

(* Two polls returned statuses that are not terminal, and the third *)
(* returned READY: success at the third poll.                       *)
C17_Witness ==
    /\ mon.seen = <<Some(WAIT_FOR_RUN_KEY), Some(PIPETTE_NOT_HOMED), Some(READY)>>
    /\ mon.pc = "done"
    /\ mon.result = Some(TRUE)

C18_FailedPollStep ==
    (Len(mon'.kinds) = Len(mon.kinds) + 1 /\ mon'.kinds[Len(mon'.kinds)] \in FailedKinds)
        => (mon'.pc = "loop" /\ mon'.result = None)

(* C18: a failed status query (the request could not be sent, no       *)
(* response within the per-poll timeout, a status code other than      *)
(* accepted, fewer than 4 data bytes) does not end the monitoring, and *)
(* a terminal status on a later poll within the overall timeout still  *)
(* decides the result.                                                 *)
C18_FailedPollGoesOn ==
    /\ []((Polls >= 2 /\ TerminalAt(Polls) /\ mon.kinds[Polls - 1] \in FailedKinds) =>
            /\ mon.pc = "done"
            /\ mon.result = Some(mon.seen[Polls] \subseteq {READY, WAIT_FOR_BLOWIN}))
    /\ [][C18_FailedPollStep]_vars

(* Three status queries failed in three ways, and the fourth poll *)
(* returned READY.                                                 *)
C18_Witness ==
    /\ Polls = 4
    /\ \A i \in 1..3 : mon.kinds[i] \in FailedKinds
    /\ \A i, j \in 1..3 : i # j => mon.kinds[i] # mon.kinds[j]
    /\ mon.seen[Polls] = Some(READY)
    /\ mon.result = Some(TRUE)

(* C19: monitor_action always terminates, and when no poll has returned *)
(* a terminal status before the overall timeout has elapsed it stops    *)
(* polling and reports failure (returns False).                         *)
C19_TimeoutTerminates ==
    /\ []((mon.pc = "done" /\ (Polls = 0 \/ ~TerminalAt(Polls))) =>
            (mon.result = Some(FALSE) /\ mon.elapsed >= mon.timeout))
    /\ (mon.pc = "loop") ~> (mon.pc \in {"done", "raised"})

(* The monitoring has ended by the timeout after polls that returned *)
(* no terminal status.                                               *)
C19_Witness ==
    /\ mon.pc = "done"
    /\ mon.timeout > 0
    /\ Polls >= 2
    /\ \A i \in 1..Polls : ~TerminalAt(i)
    /\ mon.result = Some(FALSE)
    /\ mon.elapsed >= mon.timeout

(* ---------------------------------------------------------------- *)
(* The header fields of the frames built                             *)
(* ---------------------------------------------------------------- *)

(* C27: every sequence number carried by a frame built by              *)
(* _build_message lies in the range 1..65000, over any number of       *)
(* consecutive calls.                                                  *)
C27_SequenceInRange ==
    calls >= 1 => FrameSequence \in 1..SEQUENCE_LIMIT

(* lines 145-146: the length field of the frame built last *)
FrameLength == FrameMessage[1] * 256 + FrameMessage[2]

(* C28: in every frame built by _build_message the 16-bit big-endian   *)
(* length field equals 8 plus the number of payload bytes counted      *)
(* before escaping, whatever number of bytes escaping adds.            *)
C28_LengthBeforeEscaping ==
    frame # <<>> =>
        /\ FrameMessage[1] \in 0..255
        /\ FrameMessage[2] \in 0..255
        /\ FrameLength = 8 + Len(request.data)

(* A frame was built whose payload of two or more bytes holds a        *)
(* reserved byte, so that the frame is longer than its length field    *)
(* and the two markers account for.                                    *)
C28_Witness ==
    /\ frame # <<>>
    /\ Len(request.data) >= 2
    /\ \E i \in 1..Len(request.data) : request.data[i] \in {STX, ETX, ESC}
    /\ Len(frame) > FrameLength + 2

(* ---------------------------------------------------------------- *)
(* The receive path on what the pipette sends during a session       *)
(* ---------------------------------------------------------------- *)

(* C26: any byte content between a start marker and an end marker      *)
(* makes the receive path return either a response or a decode failure *)
(* (None); no such content makes _wait_for_response raise an           *)
(* exception.                                                          *)
C26_NeverRaises ==
    (rpc # "loop" /\ HasFrame(buffer)) => rpc = "returned"

(* The bytes the pipette has sent since the input buffer was last     *)
(* cleared, in the order sent: those read, those waiting at the port  *)
(* and those still on their way.                                      *)
Delivered == buffer \o in_waiting \o wire

(* How the last _wait_for_response call ended, as a scan outcome. *)
WaitOutcome ==
    IF rpc = "raised" THEN Raises ELSE Returns(response)

(* C30: the response returned by _wait_for_response does not depend on *)
(* how the serial link chunks the bytes: a response frame delivered    *)
(* within the timeout in any split into partial reads yields the same  *)
(* result as the same bytes delivered in one read.                     *)
C30_ChunkingIndependent ==
    /\ (rpc # "loop" /\ log \in {"wait_tuple", "wait_short", "wait_raise"})
          => WaitOutcome = ScanOutcome(Delivered)
    /\ rpc = "loop" => ~HasFrame(buffer)

(* A response tuple was returned on a read that held a part only of    *)
(* the bytes sent: an end marker was among the bytes that came later.  *)
C30_Witness ==
    /\ rpc = "returned"
    /\ log = "wait_tuple"
    /\ response # None
    /\ Len(buffer) < Len(Delivered)
    /\ \E i \in Len(buffer) + 1..Len(Delivered) : Delivered[i] = ETX
    /\ Len(Content(buffer)) >= HEADER_LENGTH

(* ---------------------------------------------------------------- *)
(* disconnect                                                        *)
(* ---------------------------------------------------------------- *)

(* A disconnect() call that follows another kind of call. *)
C23_FirstCallStep ==
    (log # "disconnect" /\ log' = "disconnect") =>
        /\ serial_port' # "open"
        /\ serial_port # "open" => serial_port' = serial_port
        /\ UNCHANGED <<sequence_number, calls, request, frame, link, receive>>

(* A disconnect() call that follows a disconnect() call. *)
C23_SecondCallStep ==
    (log = "disconnect" /\ Disconnect) => UNCHANGED vars

(* C23: disconnect always succeeds and is idempotent: calling it on a  *)
(* never-connected, a connected or an already disconnected session     *)
(* raises no error, and calling it twice leaves the session in the     *)
(* same state as calling it once, with no open port.                   *)
C23_DisconnectIdempotent ==
    /\ [](rpc # "loop" => ENABLED Disconnect)
    /\ [](log = "disconnect" => serial_port # "open")
    /\ [][C23_FirstCallStep]_vars
    /\ [][C23_SecondCallStep]_vars

(* A session that was connected and sent a request has been *)
(* disconnected.                                            *)
C23_Witness ==
    /\ log = "disconnect"
    /\ serial_port = "closed"
    /\ calls >= 1

(* ---------------------------------------------------------------- *)
(* An exchange: the session of above, where the pipette sends one    *)
(* response to a status request.                                     *)
(* ---------------------------------------------------------------- *)

(* The sequence numbers of the pipette's response: that of the first *)
(* request of the session, the one before it and the one after it.   *)
ReplySequences == {1, 2, 3}

(* The responses of the pipette: accepted or refused, with the action *)
(* status READY or WAIT_FOR_RUN_KEY.                                  *)
ExchangeReplies ==
    {StatusReply(seq, status_code, action_status, 0) :
        seq \in ReplySequences,
        status_code \in {COMMAND_ACCEPTED, COMMAND_NOT_ACCEPTED},
        action_status \in {READY, WAIT_FOR_RUN_KEY}}

ExchangeInit ==
    /\ BridgeInit
    /\ ControllerInit
    /\ EscapingInit
    /\ wire \in ExchangeReplies
    /\ in_waiting = <<>>
    /\ ReceiveInit
    /\ log = "none"
    /\ mon = MonitorIdle
    /\ action = NoAction

SpecExchange == ExchangeInit /\ [][SessionNext]_vars

(* The header and payload of the first complete frame among the bytes *)
(* the pipette has sent since the input buffer was last cleared.      *)
FirstFrame == Content(Delivered)

(* C29: _wait_for_response returns the first complete frame that       *)
(* arrives after the request was sent, whether or not its sequence     *)
(* number equals the sequence number of that request; a mismatch does  *)
(* not cause a failure.                                                *)
C29_FirstFrameReturned ==
    (rpc # "loop" /\ log \in {"wait_tuple", "wait_short", "wait_raise"}) =>
        /\ HasFrame(Delivered)
        /\ Len(FirstFrame) >= HEADER_LENGTH + 2 =>
              /\ rpc = "returned"
              /\ \E tuple \in response :
                    /\ tuple.seq_num = FirstFrame[4] * 256 + FirstFrame[5]
                    /\ tuple.msg_type = FirstFrame[7] * 256 + FirstFrame[8]
                    /\ Carries(tuple, SubSeq(FirstFrame, 9, Len(FirstFrame)))

(* The response to the first request was returned to the wait that *)
(* followed the second request.                                    *)
C29_Witness ==
    /\ log = "wait_tuple"
    /\ rpc = "returned"
    /\ calls = 2
    /\ frame = Frame(3, GET_ACTION_STATUS, <<>>)
    /\ \E tuple \in response :
          /\ tuple.seq_num = 2
          /\ tuple.seq_num # sequence_number
          /\ tuple.status_code = COMMAND_ACCEPTED
          /\ Len(tuple.response_data) = 4

(* The response to the first request was returned to the wait that *)
(* followed it.                                                    *)
ExchangeMatched ==
    /\ log = "wait_tuple"
    /\ calls = 1
    /\ \E tuple \in response : tuple.seq_num = sequence_number

(* ---------------------------------------------------------------- *)
(* The bridge: phases, and the intercept thread while a device       *)
(* command runs                                                      *)
(* ---------------------------------------------------------------- *)

(* The phase changes of the workflow cycle. *)
PhaseChanges ==
    { <<"IDLE", "ACKNOWLEDGED">>, <<"ACKNOWLEDGED", "RUNNING">>,
      <<"RUNNING", "COMPLETED">>, <<"RUNNING", "IDLE">>, <<"COMPLETED", "IDLE">> }

C24_PhaseStep ==
    workflow_state' # workflow_state =>
        <<workflow_state, workflow_state'>> \in PhaseChanges

(* C24: every change of phase is one of IDLE to ACKNOWLEDGED,          *)
(* ACKNOWLEDGED to RUNNING, RUNNING to COMPLETED, RUNNING to IDLE      *)
(* (failure) or COMPLETED to IDLE; no other phase change occurs in any *)
(* execution.                                                          *)
C24_PhaseChanges == [][C24_PhaseStep]_vars

(* A cycle has gone through all four phases: the intercept thread has *)
(* just released a completed workflow.                                *)
C24_Witness ==
    /\ ipc = "ack_cur"
    /\ workflow_state = "IDLE"
    /\ current_workflow # None

(* What the handlers make of a write that arrives while a device *)
(* command is in flight.                                         *)
HandledOutcomes == {"none", "request_ignored", "acknowledge_ignored"}

(* A step of the intercept thread while a device command is in flight. *)
C25_InterceptStep ==
    (InFlightWorkers # {} /\ InterceptMoves) =>
        /\ workers' = workers
        /\ ipc \in {"sv_cmp", "req_check", "ack_check"} => i_outcome' \in HandledOutcomes

(* C25: the write-intercept handler completes without waiting for the  *)
(* device command: after a trigger is accepted, further external       *)
(* writes are handled (ignored, deduplicated or acknowledged) while    *)
(* that device command is still in flight.                             *)
C25_HandledWhileInFlight ==
    /\ [](InFlightWorkers # {} => ENABLED InterceptStep)
    /\ [][C25_InterceptStep]_vars

(* While the device command of an accepted trigger is in flight, a     *)
(* further trigger write has been taken through its handler and is     *)
(* about to be stored.                                                 *)
C25_Witness ==
    /\ InFlightWorkers # {}
    /\ ipc = "sv_super"
    /\ i_outcome = "request_ignored"
    /\ \E w \in InFlightWorkers : workers[w].wf # i_addr

(* ================================================================ *)
(* execute_action of src/integrate_pipette.py, lines 33-90.  A       *)
(* character is its code point and a string is a sequence of         *)
(* characters.                                                       *)
(* ================================================================ *)

(* src/pipette_controller.py lines 18, 21 and 24: SetAction *)
ASPIRATE == 1
PURGE == 4
DISPENSE_WITH_NO_BLOW_OUT == 7

(* lines 39, 40 and 49: the length of the display message field *)
MESSAGE_LENGTH == 20

(* action_type.name *)
ActionName(action_type) ==
    CASE action_type = ASPIRATE -> <<65, 83, 80, 73, 82, 65, 84, 69>>
      [] action_type = PURGE -> <<80, 85, 82, 71, 69>>
      [] action_type = DISPENSE_WITH_NO_BLOW_OUT ->
            <<68, 73, 83, 80, 69, 78, 83, 69, 95, 87, 73, 84, 72, 95,
              78, 79, 95, 66, 76, 79, 87, 95, 79, 85, 84>>

(* line 39: the three full stops after the name *)
Ellipsis == <<46, 46, 46>>

(* s[:n] *)
Truncate(s, n) == SubSeq(s, 1, IF Len(s) < n THEN Len(s) ELSE n)

(* s.ljust(n, fill) *)
Ljust(s, n, fill) ==
    IF Len(s) >= n THEN s ELSE s \o [i \in 1..(n - Len(s)) |-> fill]

(* line 40, mutated: every character is kept as a byte *)
IsAsciiAny(char) == TRUE

(* line 40: the characters that encode('ascii', 'ignore') keeps *)
IsAscii(char) == char < 128

(* line 40: str.encode('ascii', 'ignore') *)
EncodeAscii(s) == SelectSeq(s, IsAscii)

(* line 39: display_msg *)
DisplayMsg(message, action_type) ==
    IF message # <<>>
    THEN Ljust(Truncate(message, MESSAGE_LENGTH), MESSAGE_LENGTH, 0)
    ELSE Ljust(ActionName(action_type) \o Ellipsis, MESSAGE_LENGTH, 0)

(* line 40: display_bytes *)
DisplayBytes(message, action_type) ==
    Truncate(EncodeAscii(DisplayMsg(message, action_type)), MESSAGE_LENGTH)

(* line 49: display_bytes[:20].ljust(20, b'\0') *)
DisplayField(message, action_type) ==
    Ljust(Truncate(DisplayBytes(message, action_type), MESSAGE_LENGTH),
          MESSAGE_LENGTH, 0)

(* lines 50-51, mutated: the spacing takes one byte *)
SpacingOneByte == <<0>>

(* lines 50-51: spacing high byte and spacing low byte *)
Spacing == <<0, 0>>

(* lines 42-51: action_data *)
ActionData(args) ==
    << args.action_type, args.speed, args.volume \div 256, args.volume % 256,
       args.mix_cycles, IF args.run_confirmation THEN 1 ELSE 0 >>
    \o DisplayField(args.message, args.action_type)
    \o Spacing

(* lines 43-47: bytearray.append raises ValueError for a value outside *)
(* range(0, 256)                                                       *)
AppendRaises(args) ==
    \E value \in {args.action_type, args.speed, args.volume \div 256, args.mix_cycles} :
        value \notin 0..255

(* Largest number of characters of a message argument. *)
MaxMessage == 22

(* The message of n characters, different letters from A on, with the *)
(* character at position k (if any) replaced by a non-ASCII one.      *)
MessageOf(n, k) == [i \in 1..n |-> IF i = k THEN 233 ELSE 64 + i]

Messages == {MessageOf(n, k) : n \in 0..MaxMessage, k \in {0, 1, MESSAGE_LENGTH}}

ActionTypes == {ASPIRATE, PURGE, DISPENSE_WITH_NO_BLOW_OUT}

(* Volumes: none, one that needs both bytes, and one that does not fit *)
(* into two bytes.                                                     *)
Volumes == {0, 300, 65536}

(* The frames that reach the port after a set-action request: nothing, *)
(* a status code, a header without status code, and a frame whose      *)
(* content is one byte longer than a header.                           *)
ActionReplies(seq) ==
    {<<>>}
    \cup {Frame(seq, SET_ACTION, Word(status_code)) :
            status_code \in {COMMAND_ACCEPTED, COMMAND_NOT_ACCEPTED}}
    \cup {Frame(seq, SET_ACTION, <<>>)}
    \cup {<<STX>> \o Zeros(HEADER_LENGTH + 1) \o <<ETX>>}

(* execute_action is called on a controller that is connected or was *)
(* never connected; the timeout is given in half seconds.            *)
ActionInit ==
    /\ BridgeInit
    /\ serial_port \in {"open", "none"}
    /\ sequence_number = 1
    /\ calls = 0
    /\ request = NoRequest
    /\ frame = <<>>
    /\ EscapingInit
    /\ LinkInit
    /\ ReceiveInit
    /\ log = IF serial_port = "open" THEN "connect_true" ELSE "connect_false"
    /\ mon = MonitorIdle
    /\ action \in [pc : {"start"}, action_type : ActionTypes, speed : {5},
                   volume : Volumes, mix_cycles : {0, 3}, message : Messages,
                   run_confirmation : BOOLEAN, monitor : BOOLEAN,
                   timeout : {CHECK_INTERVAL}, result : {None}, exit_code : {None}]

(* lines 38-64 and 86-90: the payload is built and handed to *)
(* _send_message(5, bytes(action_data))                      *)
ActionSend ==
    /\ action.pc = "start"
    /\ IF AppendRaises(action)
       THEN /\ action' = [action EXCEPT !.pc = "raised"]
            /\ UNCHANGED <<server, controller, escaping, link, receive, log, mon>>
       ELSE /\ SendMessage(SET_ACTION, ActionData(action))
            /\ action' = IF log' = "send_true"
                         THEN [action EXCEPT !.pc = "wait"]
                         ELSE [action EXCEPT !.pc = "done", !.result = Some(FALSE)]

(* lines 65-85: _wait_for_response() and what is made of the response *)
ActionWait ==
    /\ action.pc = "wait"
    /\ \E reply \in ActionReplies(sequence_number) :
        LET scanned == ScanOutcome(reply)
            accepted == /\ scanned.kind = "return"
                        /\ \E tuple \in scanned.value : tuple.status_code = COMMAND_ACCEPTED
        IN /\ buffer' = reply
           /\ rpc' = IF scanned.kind = "raise" THEN "raised" ELSE "returned"
           /\ response' = scanned.value
           /\ log' = CASE scanned.kind = "raise" -> "wait_raise"
                       [] scanned.kind = "wait" -> "wait_timeout"
                       [] scanned.value = None -> "wait_short"
                       [] OTHER -> "wait_tuple"
           /\ action' = CASE scanned.kind = "raise" -> [action EXCEPT !.pc = "raised"]
                          [] accepted /\ action.monitor -> [action EXCEPT !.pc = "monitor"]
                          [] OTHER -> [action EXCEPT !.pc = "done", !.result = Some(accepted)]
           /\ mon' = IF accepted /\ action.monitor
                     THEN [MonitorIdle EXCEPT !.pc = "loop", !.timeout = action.timeout]
                     ELSE mon
    /\ UNCHANGED <<server, controller, escaping, link>>

(* line 74: return monitor_action(controller, timeout) *)
ActionReturn ==
    /\ action.pc = "monitor"
    /\ mon.pc \in {"done", "raised"}
    /\ action' = [action EXCEPT !.pc = mon.pc, !.result = mon.result]
    /\ UNCHANGED <<server, controller, escaping, link, receive, log, mon>>

ActionNext ==
    \/ ActionSend
    \/ ActionWait
    \/ MonitorPoll
    \/ MonitorTimeout
    \/ ActionReturn

SpecAction == ActionInit /\ [][ActionNext]_vars

(* The payload of the set-action request as sent: the bytes after the *)
(* header in the frame _send_message built for execute_action.        *)
ActionSent == action.pc # "idle" /\ calls = 1 /\ request.msg_type = SET_ACTION

Payload == SubSeq(FrameMessage, HEADER_LENGTH + 1, Len(FrameMessage))

(* The display message field: the 20 bytes after the first six. *)
MessageField == SubSeq(Payload, 7, 6 + MESSAGE_LENGTH)

(* The fields around the display message, in the order of the claim. *)
PayloadLayout ==
    /\ Payload[1] = action.action_type
    /\ Payload[2] = action.speed
    /\ Payload[3] * 256 + Payload[4] = action.volume
    /\ Payload[5] = action.mix_cycles
    /\ Payload[6] = (IF action.run_confirmation THEN 1 ELSE 0)
    /\ Len(MessageField) = MESSAGE_LENGTH
    /\ (action.message # <<>> /\ action.message[1] \in 0..127)
          => MessageField[1] = action.message[1]
    /\ Payload[Len(Payload) - 1] = 0
    /\ Payload[Len(Payload)] = 0

(* C21: the payload of a set-action request built by execute_action is *)
(* 27 bytes long and laid out as action, speed, volume high byte,      *)
(* volume low byte, mix cycles, run-confirmation flag, 20-byte display *)
(* message, spacing high byte, spacing low byte.                       *)
C21_Payload27 ==
    ActionSent => (Len(Payload) = 27 /\ PayloadLayout)

(* C21, amended: the payload has the nine fields in that order and is  *)
(* 28 bytes long (six single bytes, the 20 bytes of the message and    *)
(* the two bytes of the spacing).                                      *)
C21_Payload28 ==
    ActionSent =>
        /\ Len(Payload) = 28
        /\ Len(Payload) = 6 + MESSAGE_LENGTH + 2
        /\ PayloadLayout

(* A request was sent whose volume needs both bytes, with the *)
(* run-confirmation flag set and a message of 20 characters.  *)
C21_Witness ==
    /\ ActionSent
    /\ action.volume > 255
    /\ action.run_confirmation
    /\ Len(action.message) = MESSAGE_LENGTH
    /\ Payload[3] # 0
    /\ Payload[4] # 0
    /\ Len(Payload) = 28

(* The bytes the string s takes when it is cut to n characters and *)
(* filled with NUL bytes.                                          *)
CutAndPad(s, n) == [i \in 1..n |-> IF i <= Len(s) THEN s[i] ELSE 0]

(* C22: for every message string, including empty, longer than 20      *)
(* characters or containing non-ASCII characters, the display message  *)
(* field placed in the set-action payload is exactly 20 bytes: the     *)
(* message truncated to 20 and padded with NUL bytes.                  *)
C22_MessageField ==
    ActionSent =>
        /\ Len(MessageField) = 20
        /\ MessageField = CutAndPad(action.message, 20)

SevenBit(char) == char \in 0..127

(* C22, amended: the field is exactly 20 bytes for every message.  For *)
(* a message that is not empty it holds the ASCII characters among the *)
(* first 20 characters of the message, in their order, followed by NUL *)
(* bytes; for the empty message it holds the first 20 characters of    *)
(* the action's name followed by three full stops, NUL-padded.         *)
C22_MessageFieldAscii ==
    ActionSent =>
        /\ Len(MessageField) = 20
        /\ \A i \in 1..20 : MessageField[i] \in 0..127
        /\ action.message # <<>> =>
              MessageField =
                  CutAndPad(SelectSeq(CutAndPad(action.message,
                                IF Len(action.message) < 20 THEN Len(action.message) ELSE 20),
                                SevenBit), 20)
        /\ action.message = <<>> =>
              MessageField = CutAndPad(ActionName(action.action_type) \o Ellipsis, 20)

(* A request was sent with a message of more than 20 characters whose *)
(* first character is not ASCII: the field holds characters 2 to 20   *)
(* and one NUL byte.                                                  *)
C22_Witness ==
    /\ ActionSent
    /\ Len(action.message) > MESSAGE_LENGTH
    /\ action.message[1] > 127
    /\ MessageField[1] = action.message[2]
    /\ MessageField[19] = action.message[20]
    /\ MessageField[20] = 0

(* ---------------------------------------------------------------- *)
(* The checksum on receipt                                           *)
(* ---------------------------------------------------------------- *)

(* The checksum byte of a message fits its header and payload bytes: *)
(* all bytes, the checksum byte included, sum to zero modulo 256.    *)
ChecksumMatches(message) == SumBytes(message) % 256 = 0

(* A _wait_for_response call has ended on a read. *)
WaitDecided ==
    rpc # "loop" /\ log \in {"wait_tuple", "wait_short", "wait_raise"}

(* C31: a received frame whose checksum byte does not match its header *)
(* and payload bytes is still parsed and returned as a response; the   *)
(* checksum is never a reason for a decode failure.                    *)
C31_ChecksumNotChecked ==
    WaitDecided =>
        LET message == Content(buffer)
        IN /\ (Len(message) >= HEADER_LENGTH /\ Len(message) # HEADER_LENGTH + 1) =>
                /\ rpc = "returned"
                /\ \E tuple \in response :
                      /\ tuple.seq_num = message[4] * 256 + message[5]
                      /\ tuple.msg_type = message[7] * 256 + message[8]
                      /\ Carries(tuple, SubSeq(message, 9, Len(message)))
           /\ (rpc = "returned" /\ response = None) => Len(message) < HEADER_LENGTH

(* A response tuple was returned for a frame with a status code whose *)
(* bytes do not sum to zero.                                          *)
C31_Witness ==
    /\ WaitDecided
    /\ rpc = "returned"
    /\ response # None
    /\ Len(Content(buffer)) >= HEADER_LENGTH + 2
    /\ ~ChecksumMatches(Content(buffer))

(* ---------------------------------------------------------------- *)
(* The response without status code                                  *)
(* ---------------------------------------------------------------- *)

(* The set-action request of execute_action was answered by a frame *)
(* whose content is a header and nothing else.                      *)
HeaderOnlyAnswer ==
    /\ ActionSent
    /\ action.pc \notin {"start", "wait"}
    /\ HasFrame(buffer)
    /\ Len(Content(buffer)) = HEADER_LENGTH

(* C38: a response frame of exactly 8 bytes after unescaping (header   *)
(* only, no status code) is returned to the caller as status code 0    *)
(* (command accepted) with empty data.                                 *)
C38_HeaderOnlyAccepted ==
    HeaderOnlyAnswer =>
        /\ rpc = "returned"
        /\ \E tuple \in response :
              /\ tuple.status_code = 0
              /\ tuple.response_data = <<>>
              /\ tuple.seq_num = Content(buffer)[4] * 256 + Content(buffer)[5]
              /\ tuple.msg_type = Content(buffer)[7] * 256 + Content(buffer)[8]
        /\ IF action.monitor
           THEN action.pc = "monitor" /\ mon.pc = "loop"
           ELSE action.pc = "done" /\ action.result = Some(TRUE)

(* execute_action without monitoring has returned True on a frame of *)
(* more than 8 bytes on the wire that unescape to a header.          *)
C38_Witness ==
    /\ HeaderOnlyAnswer
    /\ Len(buffer) > HEADER_LENGTH + 2
    /\ ~action.monitor
    /\ action.result = Some(TRUE)

(* ---------------------------------------------------------------- *)
(* The hardware error code in monitor_action                         *)
(* ---------------------------------------------------------------- *)

(* line 109: the hardware error code of a poll of kind "status" *)
HardwareErrorOf(returned) ==
    LET tuple == CHOOSE t \in returned : TRUE
    IN tuple.response_data[3] * 256 + tuple.response_data[4]

(* The same response with another hardware error code. *)
WithHardwareError(returned, hardware_error) ==
    LET tuple == CHOOSE t \in returned : TRUE
    IN Some([tuple EXCEPT !.response_data =
                SubSeq(tuple.response_data, 1, 2) \o Word(hardware_error)])

(* Where a decision leaves monitor_action: position and result. *)
OutcomeOf(decision) ==
    CASE decision = "success" -> <<"done", Some(TRUE)>>
      [] decision = "failure" -> <<"done", Some(FALSE)>>
      [] OTHER -> <<"loop", None>>

(* The hardware error codes compared. *)
HardwareErrors == {0, 1, 2, 256}

(* A poll that read an action status: the run that gets the same *)
(* action status with another hardware error code goes the same  *)
(* way.                                                           *)
C39_PollStep ==
    (Polls' = Polls + 1 /\ mon'.kinds[Polls'] = "status") =>
        /\ mon'.seen[Polls'] = Some(ActionStatusOf(response'))
        /\ \A hardware_error \in HardwareErrors :
              OutcomeOf(Decision("status", WithHardwareError(response', hardware_error)))
                  = <<mon'.pc, mon'.result>>

(* C39: the result of monitor_action depends only on the action-status *)
(* values polled: two runs that receive the same action-status         *)
(* sequence but different hardware-error codes end at the same poll    *)
(* with the same result, so a non-zero hardware-error code             *)
(* accompanying READY still yields success.                            *)
C39_HardwareErrorIgnored ==
    /\ []((Polls >= 1 /\ mon.seen[Polls] = Some(READY)) =>
            (mon.pc = "done" /\ mon.result = Some(TRUE)))
    /\ [][C39_PollStep]_vars

(* The second poll returned READY with a hardware error code other *)
(* than zero, and monitor_action returned True.                    *)
C39_Witness ==
    /\ mon.pc = "done"
    /\ Polls = 2
    /\ mon.seen[2] = Some(READY)
    /\ response # None
    /\ HardwareErrorOf(response) # 0
    /\ mon.result = Some(TRUE)

-----------------------------------------------------------------------------
(* C33: whenever a trigger write has been accepted and handle_robot_request
   is about to call execute_workflow (line 136), pipette_busy is false, and
   no accepted trigger ends with the dispatch skipped at line 153. *)
C33_AcceptedNeverBusy ==
    /\ ipc = "req_exec" => ~pipette_busy
    /\ i_outcome # "accepted_not_dispatched"

-----------------------------------------------------------------------------
(* A worker whose command exited 0 has written address 1 (line 175) and has
   not yet assigned the phase (line 176). *)
CompletionWritten(w) == workers[w].pc = "completed" /\ CommandSucceeded(workers[w].rc)

(* The false write the acknowledge handler is testing names the workflow a
   successful command has just completed, address 1 being false already. *)
AcknowledgeAfterCompletion ==
    /\ ipc = "ack_check"
    /\ store[ACK_ADDRESS] = FALSE
    /\ i_addr # None
    /\ i_addr = current_workflow
    /\ \/ workflow_state = "COMPLETED"
       \/ \E w \in WorkerIds : CompletionWritten(w)

(* C34: after a successful command, the false write to the active trigger
   that the acknowledge handler tests once address 1 is false is taken, in
   the window between lines 175 and 176 too, and leads to phase IDLE. *)
C34_AcknowledgeNotLost ==
    [][(AcknowledgeAfterCompletion /\ InterceptMoves) => i_outcome' = "released"]_vars

-----------------------------------------------------------------------------
(* The address of the write the intercept thread is handling. *)
WrittenAddress == CHOOSE a \in i_addr : TRUE

(* The handler has returned at its phase test (lines 120-122, 140-142). *)
IgnoredForPhase == i_outcome \in {"request_ignored", "acknowledge_ignored"}

(* C35: a trigger write ignored because of the phase has its value recorded
   in last_values all the same, and a true write is accepted only when the
   value last observed at its address (read at line 100) is not true. *)
C35_IgnoredWriteRecorded ==
    /\ IgnoredForPhase => last_values[WrittenAddress] = Some(CurrentValue(i_vals))
    /\ i_outcome \in {"accepted", "accepted_not_dispatched", "dispatched"} =>
           /\ CurrentValue(i_vals) = TRUE
           /\ i_last # Some(TRUE)

(* A true write has been ignored in a phase other than IDLE and is now the
   last value of its address: the same write repeated is unchanged. *)
C35_Witness ==
    /\ i_outcome = "request_ignored"
    /\ workflow_state # "IDLE"
    /\ i_last # Some(TRUE)
    /\ last_values[WrittenAddress] = Some(TRUE)
    /\ ~ValueChanged(last_values[WrittenAddress], TRUE)

-----------------------------------------------------------------------------
(* C36: in phase COMPLETED address 1 holds false; the clients of Spec write
   the trigger addresses only, address 1 being written by the bridge. *)
C36_CompletedMeansReleased ==
    workflow_state = "COMPLETED" => store[ACK_ADDRESS] = FALSE

(* Phase COMPLETED with a true trigger write turned down meanwhile: the only
   writer of true to address 1 (line 128) was not reached. *)
C36_Witness ==
    /\ workflow_state = "COMPLETED"
    /\ store[ACK_ADDRESS] = FALSE
    /\ ipc = "sv_super"
    /\ i_outcome = "request_ignored"
    /\ ACK_ADDRESS \notin ExternalAddresses

-----------------------------------------------------------------------------
(* A worker thread is inside run_command with line 159 executed and the
   finally clause of line 192 not yet executed. *)
ExecutingCommand(w) == Alive(w) /\ workers[w].pc # "busy"

(* The thread of worker w ends with this step. *)
WorkerEnds(w) == Alive(w) /\ workers'[w].pc = "dead"

(* C37: pipette_busy is true only while a worker thread is executing
   run_command, the thread that ends leaves it false whatever the outcome of
   its command was, and it is false when no worker thread is alive. *)
C37_BusyOnlyWhileExecuting ==
    /\ [](pipette_busy => \E w \in WorkerIds : ExecutingCommand(w))
    /\ [](NoWorkerAlive => ~pipette_busy)
    /\ [][\A w \in WorkerIds :
            WorkerEnds(w) => (workers[w].rc \in Outcomes /\ ~pipette_busy')]_vars

(* A worker thread has ended after a failed command: a trigger was accepted,
   no false write was ever recorded for a trigger address, so the phase is
   IDLE again by reset_workflow, and no thread is alive. *)
C37_Witness ==
    /\ NoWorkerAlive
    /\ ~pipette_busy
    /\ last_accepted # None
    /\ workflow_state = "IDLE"
    /\ ipc = "idle"
    /\ last_values[ACK_ADDRESS] = Some(FALSE)
    /\ \A a \in ExternalAddresses : last_values[a] # Some(FALSE)

-----------------------------------------------------------------------------
(* main of src/integrate_pipette.py with an action, lines 200-328          *)

(* lines 293-295: the actions of ActionTypes that take a volume *)
VolumeActions == {ASPIRATE, DISPENSE_WITH_NO_BLOW_OUT}

(* line 297: volume = args.volume if action_type in volume_actions else 0 *)
MainVolume(action_type, volume) == IF action_type \in VolumeActions THEN volume ELSE 0

(* lines 261-264: a volume action is run with a volume above zero only; *)
(* one that needs both bytes and one that does not fit into two bytes   *)
ArgVolumes == {300, 65536}

(* --timeout: long enough for two polls of monitor_action; the response *)
(* to the first poll echoes sequence number 3, the value of ETX         *)
MainTimeout == 2 * CHECK_INTERVAL

(* line 312, mutated: the result of execute_action is not looked at *)
ExitCodeUnlessRaised(pc, result) == IF pc = "raised" THEN 1 ELSE 0

(* lines 312-320: return 0 if success else 1; an exception raised inside *)
(* the try block is caught and gives 1                                   *)
ExitCode(pc, result) == IF pc # "raised" /\ result = Some(TRUE) THEN 0 ELSE 1

(* main has parsed its arguments and created the controller (line 267); *)
(* none of the three actions is a mix, so mix_cycles is 0 (line 298)    *)
MainInit ==
    /\ BridgeInit
    /\ ControllerInit
    /\ EscapingInit
    /\ LinkInit
    /\ ReceiveInit
    /\ log = "none"
    /\ mon = MonitorIdle
    /\ \E action_type \in ActionTypes, volume \in ArgVolumes :
        action \in [pc : {"main"}, action_type : {action_type}, speed : {5},
                    volume : {MainVolume(action_type, volume)}, mix_cycles : {0},
                    message : Messages, run_confirmation : BOOLEAN,
                    monitor : BOOLEAN, timeout : {MainTimeout},
                    result : {None}, exit_code : {None}]

(* lines 269-274: connect(); when it fails main returns 1 through the *)
(* finally clause of lines 322-323                                    *)
MainConnect ==
    /\ action.pc = "main"
    /\ serial_port = "none"
    /\ \E opened \in BOOLEAN :
        IF opened
        THEN /\ serial_port' = "open"
             /\ log' = "connect_true"
             /\ action' = [action EXCEPT !.pc = "start"]
        ELSE /\ serial_port' = PortAfterDisconnect(serial_port)
             /\ log' = "disconnect"
             /\ action' = [action EXCEPT !.pc = "exited", !.exit_code = Some(1)]
    /\ UNCHANGED <<server, sequence_number, calls, request, frame,
                   escaping, link, receive, mon>>

(* lines 312-323 and 328: execute_action has returned or raised; main *)
(* returns its exit code and the finally clause disconnects           *)
MainExit ==
    /\ action.pc \in {"done", "raised"}
    /\ action' = [action EXCEPT !.pc = "exited",
                                !.exit_code = Some(ExitCode(action.pc, action.result))]
    /\ serial_port' = PortAfterDisconnect(serial_port)
    /\ log' = "disconnect"
    /\ UNCHANGED <<server, sequence_number, calls, request, frame,
                   escaping, link, receive, mon>>

MainNext ==
    \/ MainConnect
    \/ ActionSend
    \/ ActionWait
    \/ MonitorPoll
    \/ MonitorTimeout
    \/ ActionReturn
    \/ MainExit

SpecMain == MainInit /\ [][MainNext]_vars

-----------------------------------------------------------------------------
(* line 68: the status code of the response is COMMAND_ACCEPTED *)
SetActionAccepted(answer) == \E tuple \in answer : tuple.status_code = COMMAND_ACCEPTED

(* The last request sent is the set-action request and the response read *)
(* for it carries a status code other than COMMAND_ACCEPTED.             *)
NotAccepted ==
    /\ request.msg_type = SET_ACTION
    /\ rpc = "returned"
    /\ \E tuple \in response : tuple.status_code # COMMAND_ACCEPTED

(* execute_action comes to the result True with this step. *)
BecomesSuccess == action.result # Some(TRUE) /\ action'.result = Some(TRUE)

(* execute_action goes on to monitor_action with this step (line 74). *)
StartsMonitoring == action.pc # "monitor" /\ action'.pc = "monitor"

(* C32: main exits 0 only with the port opened, the set-action request
   answered with status code 0 and, when monitoring, monitor_action
   returning True; after a set-action answer with another status code no
   request is sent, no status is polled and main exits with 1. *)
C32_ExitCode ==
    /\ [](action.exit_code = Some(0) =>
            /\ serial_port = "closed"
            /\ action.result = Some(TRUE)
            /\ action.monitor => (mon.pc = "done" /\ mon.result = Some(TRUE)))
    /\ [][BecomesSuccess =>
            \/ /\ action.pc = "wait"
               /\ ~action.monitor
               /\ request.msg_type = SET_ACTION
               /\ SetActionAccepted(response')
            \/ /\ action.pc = "monitor"
               /\ mon.result = Some(TRUE)]_vars
    /\ [][StartsMonitoring =>
            /\ action.pc = "wait"
            /\ request.msg_type = SET_ACTION
            /\ SetActionAccepted(response')]_vars
    /\ [](NotAccepted =>
            /\ calls = 1
            /\ mon = MonitorIdle
            /\ action.result = Some(FALSE)
            /\ action.exit_code # Some(0))
    /\ [][NotAccepted =>
            /\ UNCHANGED <<sequence_number, calls, request, frame, mon>>
            /\ action'.exit_code = Some(1)]_vars

(* main has exited with 1 after a set-action answer that carries the *)
(* status code COMMAND_NOT_ACCEPTED; the port was open and is closed *)
C32_Witness ==
    /\ action.pc = "exited"
    /\ action.exit_code = Some(1)
    /\ serial_port = "closed"
    /\ NotAccepted
    /\ \E tuple \in response : tuple.status_code = COMMAND_NOT_ACCEPTED
    /\ action.monitor

====
